---------------------------- MODULE Spec2Model ----------------------------
(***************************************************************************)
(* The "spiel" catalog service: the REST write and read handlers           *)
(* (SpielWriteController, SpielGetController), the application core        *)
(* (SpielWriteService, SpielReadService) and the relational tables they    *)
(* write (create.sql).  Every request handler is a sequence of steps that  *)
(* are separated by its awaits on the database or on the mail relay; the   *)
(* steps of different requests interleave.                                 *)
(*                                                                         *)
(* Optional values (undefined in the code, NULL in the tables) are         *)
(* sequences of length 0 or 1.  Decimal numbers are integers counting      *)
(* ten-thousandths.  Strings that the code takes apart (version tokens)    *)
(* are sequences of one-character strings.                                 *)
(***************************************************************************)
EXTENDS Integers, Sequences, FiniteSets, TLC

\* ------------------------------------------------------------------ bounds

\* Number of requests that can be in flight at the same time.
NumProcs == 2

\* Number of rows the item table's identity sequence hands out.
MaxInserts == 2

\* Number of item updates that are executed in one behaviour.
MaxUpdates == 2

\* Stored version a seeded item can have reached after many updates: the
\* largest version that is written with three digits.
SeedVersionHigh == 999

\* Decimal numbers are integers counting units of 10^-DecimalPlaces.
DecimalPlaces == 4

\* Number of file uploads that are executed in one behaviour.
MaxUploads == 2

\* Number of items that are stored when the searches start.
MaxRows == 3

\* ---------------------------------------------------------------- optional

None == << >>

Some(x) == << x >>

IsSome(o) == Len(o) = 1

\* a ?? d
OrElse(o, d) == IF IsSome(o) THEN o[1] ELSE d

\* --------------------------------------------------------- version tokens

DQ == "\""

DigitChars == << "0", "1", "2", "3", "4", "5", "6", "7", "8", "9" >>

IsDigit(c) == \E i \in 1..10 : DigitChars[i] = c

DigitVal(c) == (CHOOSE i \in 1..10 : DigitChars[i] = c) - 1

\* `${n}` for a non-negative integer n
RECURSIVE ToDigits(_)
ToDigits(n) ==
    IF n < 10 THEN << DigitChars[n + 1] >>
    ELSE ToDigits(n \div 10) \o << DigitChars[(n % 10) + 1] >>

\* `"${version}"`
ETagOf(version) == << DQ >> \o ToDigits(version) \o << DQ >>

\* \d{1,3}
VERSION_DIGITS == 3

\* /^"\d+"/u : a format check that takes any number of digits
VersionPatternAnyDigits(versionStr) ==
    \E n \in 1..(Len(versionStr) - 2) :
        /\ versionStr[1] = DQ
        /\ \A i \in 2..(n + 1) : IsDigit(versionStr[i])
        /\ versionStr[n + 2] = DQ

\* /^"\d{1,3}"/u : a prefix match, the pattern has no end anchor.
VersionPatternTest(versionStr) ==
    \E n \in 1..VERSION_DIGITS :
        /\ Len(versionStr) >= n + 2
        /\ versionStr[1] = DQ
        /\ \A i \in 2..(n + 1) : IsDigit(versionStr[i])
        /\ versionStr[n + 2] = DQ

\* s.slice(1, -1)
Slice1(s) == IF Len(s) >= 2 THEN SubSeq(s, 2, Len(s) - 1) ELSE << >>

NaN == -1

\* Number.parseInt(s, 10) of a string without sign or leading blanks:
\* the value of the longest prefix of digits, NaN when there is none.
RECURSIVE ParseDigits(_, _, _)
ParseDigits(s, i, acc) ==
    IF i > Len(s) \/ ~IsDigit(s[i]) THEN acc
    ELSE ParseDigits(s, i + 1, acc * 10 + DigitVal(s[i]))

ParseInt(s) ==
    IF Len(s) = 0 \/ ~IsDigit(s[1]) THEN NaN ELSE ParseDigits(s, 1, 0)

\* a < b of two numbers, false when one is NaN
NumLess(a, b) == a # NaN /\ b # NaN /\ a < b


\* ------------------------------------------------------------ sample data

\* Version tokens a client sends in If-Match: the ETags of the versions an
\* item can have here, and tokens that are not an ETag.
TokenVersions == { 0, 1, SeedVersionHigh, SeedVersionHigh + 1 }

TokenUnquoted == << "0" >>

TokenNoDigits == << DQ, "a", DQ >>

TokenTrailing == ETagOf(0) \o << "x" >>

Tokens ==
    { ETagOf(v) : v \in TokenVersions }
        \cup { TokenUnquoted, TokenNoDigits, TokenTrailing }

BarcodeSeed == "978-3-897-22583-1"

BarcodeNew == "978-0-007-00644-1"

BarcodeOther == "978-0-201-63361-0"

BarcodeExtra == "978-1-449-37321-4"

\* name of a seeded row, a name the name pattern accepts and one it refuses
NameSeed == [ name |-> "Alpha", untertitel |-> Some("alpha") ]

NamePost == [ name |-> "Namepost", untertitel |-> Some("untertitelpos") ]

\* neuesSpiel of the REST tests: preis 99.99, rabatt 0.0123
NeuesSpiel ==
    [ barcode |-> BarcodeNew, rating |-> 1, art |-> Some("COMPUTERSPIEL"),
      preis |-> 999900, rabatt |-> Some(123), lieferbar |-> Some(TRUE),
      datum |-> Some("2022-02-28"), homepage |-> Some("https://post.rest"),
      schlagwoerter |-> Some(<< << "JAVASCRIPT" >>, << "TYPESCRIPT" >> >>),
      name |-> NamePost ]

\* the same without a category
NeuesSpielOhneArt == [ NeuesSpiel EXCEPT !.art = None ]

\* only the required properties, a price of 1.005 and the keyword "JAVA,PYTHON"
NeuesSpielMinimal ==
    [ barcode |-> BarcodeOther, rating |-> 5, art |-> None,
      preis |-> 10050, rabatt |-> None, lieferbar |-> None,
      datum |-> None, homepage |-> None,
      schlagwoerter |-> Some(<< << "JAVA", "PYTHON" >> >>),
      name |-> [ name |-> "Minimal", untertitel |-> None ] ]

\* neuesSpielBarcodeExistiert of the REST tests, without category and keywords
NeuesSpielBarcodeExistiert ==
    [ NeuesSpielOhneArt EXCEPT !.barcode = BarcodeSeed, !.rabatt = Some(900),
                               !.schlagwoerter = None ]

\* a category the validation pattern accepts
NeuesSpielEpub == [ NeuesSpielOhneArt EXCEPT !.art = Some("EPUB") ]

\* neuesSpielInvalid of the REST tests
NeuesSpielInvalid ==
    [ NeuesSpiel EXCEPT !.barcode = "falsche-BARCODE", !.rating = 0 - 1,
                        !.art = Some("UNSICHTBAR") ]

SpielDTOs ==
    { NeuesSpiel, NeuesSpielOhneArt, NeuesSpielMinimal,
      NeuesSpielBarcodeExistiert, NeuesSpielEpub, NeuesSpielInvalid }

\* bodies of PUT requests (SpielDtoOhneRef)
GeaendertesSpiel ==
    [ barcode |-> BarcodeSeed, rating |-> 5, art |-> None,
      preis |-> 444400, rabatt |-> Some(100), lieferbar |-> Some(TRUE),
      datum |-> None, homepage |-> None, schlagwoerter |-> None ]

GeaendertesSpielBarcode ==
    [ GeaendertesSpiel EXCEPT !.barcode = BarcodeNew, !.rating = 2,
                              !.rabatt = None ]

GeaendertesSpielInvalid == [ GeaendertesSpiel EXCEPT !.rating = 6 ]

SpielDtosOhneRef ==
    { GeaendertesSpiel, GeaendertesSpielBarcode, GeaendertesSpielInvalid }

\* ids of the rows loaded with the schema, and an id that is never used
SeedId == 1

MissingId == 999999

\* GENERATED ALWAYS AS IDENTITY(START WITH 1000)
FIRST_ID == 1000

RequestIds == { SeedId, FIRST_ID, MissingId }

\* -------------------------------------------------------------- validation

\* @Matches(/^(?:\d{13}|\d{3}(?:-\d{1,5}){3}-\d)$/) on the sample barcodes
MatchesBarcode(barcode) ==
    barcode \in { BarcodeSeed, BarcodeNew, BarcodeOther, BarcodeExtra }

MAX_RATING == 5

\* @Matches(/^(EPUB|HARDCOVER|PAPERBACK)$/u)
MatchesArt(art) == art \in { "EPUB", "HARDCOVER", "PAPERBACK" }

\* 10^n
RECURSIVE Pow10(_)
Pow10(n) == IF n = 0 THEN 1 ELSE 10 * Pow10(n - 1)

\* Decimal(1) in the model's unit
DecimalOne == Pow10(DecimalPlaces)

\* The rating of a body is a JSON number: the field rating holds its whole
\* part, and a body whose rating has a fractional part carries that part, in
\* tenths, in a field ratingTenths.
RatingTenths(dto) ==
    IF "ratingTenths" \in DOMAIN dto THEN dto.ratingTenths ELSE 0

\* @IsInt() on rating
IsInt(dto) == RatingTenths(dto) = 0

\* class-validator without the three decorators of rating
ValidWithoutRating(dto) ==
    /\ MatchesBarcode(dto.barcode)
    /\ IsSome(dto.art) => MatchesArt(dto.art[1])
    /\ dto.preis >= 0
    /\ IsSome(dto.rabatt) => (dto.rabatt[1] >= 0 /\ dto.rabatt[1] <= DecimalOne)

\* class-validator on SpielDtoOhneRef: datum, homepage and schlagwoerter of
\* the samples are a date, a URL and an array without duplicates.
ValidSpielDtoOhneRef(dto) ==
    /\ MatchesBarcode(dto.barcode)
    /\ IsInt(dto)
    /\ dto.rating >= 0
    /\ dto.rating <= MAX_RATING
    /\ IsSome(dto.art) => MatchesArt(dto.art[1])
    /\ dto.preis >= 0
    /\ IsSome(dto.rabatt) => (dto.rabatt[1] >= 0 /\ dto.rabatt[1] <= DecimalOne)

\* NameDTO: @Matches(^\w.*) on the sample names
ValidNameDTO(nameDTO) == nameDTO.name \in { "Alpha", "Namepost", "Minimal" }

\* class-validator on SpielDTO
ValidSpielDTO(dto) == ValidSpielDtoOhneRef(dto) /\ ValidNameDTO(dto.name)

\* ------------------------------------------------- controller conversions

\* The values of `new Date()` and of NOW() by the place that makes them:
\* create.sql for the rows loaded with the schema, post and put for their
\* entities.
DateOfSchema == "NOW() of create.sql"

DateOfPost == "new Date() of #spielDtoToSpiel"

DateOfPut == "new Date() of #spielDtoOhneRefToSpiel"

\* SpielWriteController.#spielDtoToSpiel
SpielDtoToSpiel(spielDTO) ==
    [ id |-> None, version |-> None,
      barcode |-> spielDTO.barcode,
      rating |-> spielDTO.rating,
      art |-> spielDTO.art,
      preis |-> spielDTO.preis,
      rabatt |-> Some(OrElse(spielDTO.rabatt, 0)),
      lieferbar |-> spielDTO.lieferbar,
      datum |-> spielDTO.datum,
      homepage |-> spielDTO.homepage,
      schlagwoerter |-> spielDTO.schlagwoerter,
      name |-> Some([ id |-> None, name |-> spielDTO.name.name,
                      untertitel |-> spielDTO.name.untertitel ]),
      erzeugt |-> Some(DateOfPost) ]

\* a conversion for put that sets erzeugt like the conversion for post
SpielDtoOhneRefToSpielErzeugt(spielDTO) ==
    [ id |-> None, version |-> None,
      barcode |-> spielDTO.barcode,
      rating |-> spielDTO.rating,
      art |-> spielDTO.art,
      preis |-> spielDTO.preis,
      rabatt |-> Some(OrElse(spielDTO.rabatt, 0)),
      lieferbar |-> spielDTO.lieferbar,
      datum |-> spielDTO.datum,
      homepage |-> spielDTO.homepage,
      schlagwoerter |-> spielDTO.schlagwoerter,
      name |-> None,
      erzeugt |-> Some(DateOfPut) ]

\* SpielWriteController.#spielDtoOhneRefToSpiel
SpielDtoOhneRefToSpiel(spielDTO) ==
    [ id |-> None, version |-> None,
      barcode |-> spielDTO.barcode,
      rating |-> spielDTO.rating,
      art |-> spielDTO.art,
      preis |-> spielDTO.preis,
      rabatt |-> Some(OrElse(spielDTO.rabatt, 0)),
      lieferbar |-> spielDTO.lieferbar,
      datum |-> spielDTO.datum,
      homepage |-> spielDTO.homepage,
      schlagwoerter |-> spielDTO.schlagwoerter,
      name |-> None,
      erzeugt |-> None ]

\* ----------------------------------------------------- column conversions

\* decimal(8,2) and decimal(4,3)
PREIS_SCALE == 2

RABATT_SCALE == 3

\* a decimal column that cuts off the places after `scale`
TruncateToScale(x, scale) ==
    IF scale >= DecimalPlaces THEN x
    ELSE LET unit == Pow10(DecimalPlaces - scale)
         IN  (x \div unit) * unit

\* a non-negative number stored in a decimal column with `scale` places
\* after the point: rounded, halves away from zero
RoundToScale(x, scale) ==
    IF scale >= DecimalPlaces THEN x
    ELSE LET unit == Pow10(DecimalPlaces - scale)
         IN  ((x + (unit \div 2)) \div unit) * unit

\* concatenation of a sequence of sequences
RECURSIVE Flatten(_)
Flatten(ss) == IF Len(ss) = 0 THEN << >> ELSE Head(ss) \o Flatten(Tail(ss))

\* simple-array, written: the elements joined by commas.  A text is the
\* sequence of its parts between the commas, an element is the sequence of
\* its own parts.
SimpleArrayToString(array) == Flatten(array)

\* simple-array, read: the text split at the commas
StringToSimpleArray(text) == [ i \in 1..Len(text) |-> << text[i] >> ]

\* ------------------------------------------------------------------ state

VARIABLES
    spiel,       \* rows of table spiel
    name,        \* rows of table name
    bild,        \* rows of table bild
    spielFile,   \* rows of table spiel_file
    fileSeq,     \* next value of the identity sequence of spiel_file.id
    spielSeq,    \* next value of the identity sequence of spiel.id
    nameSeq,     \* next value of the identity sequence of name.id
    mails,       \* the mails handed to the mail service, in order
    req,         \* per request slot: the request in flight and its response
    writes,      \* number of UPDATE statements executed on table spiel
    updatedIds   \* history: ids of the rows an UPDATE statement has changed

vars ==
    << spiel, name, bild, spielFile, fileSeq, spielSeq, nameSeq, mails, req,
       writes, updatedIds >>

Procs == 1..NumProcs

\* ---------------------------------------------------------------- database

\* a table without the unique constraint on barcode
NoUniqueBarcode(rows) == TRUE

\* spiel.barcode ... NOT NULL UNIQUE
UniqueBarcode(rows) ==
    \A r1 \in rows : \A r2 \in rows : r1.barcode = r2.barcode => r1 = r2

\* spiel.id ... PRIMARY KEY
UniqueId(rows) == \A r1 \in rows : \A r2 \in rows : r1.id = r2.id => r1 = r2

\* CREATE TYPE spielart AS ENUM (...); spiel.art spielart
SpielartEnum(row) ==
    IsSome(row.art) =>
        row.art[1] \in { "BRETTSPIEL", "COMPUTERSPIEL", "ACTIONSPIEL" }

\* spiel.rating ... CHECK (rating >= 0 AND rating <= 5)
RatingCheck(row) == row.rating >= 0 /\ row.rating <= 5

\* Does the database accept `rows` as the contents of table spiel when a
\* statement has written `row`?
ConstraintsHold(rows, row) ==
    /\ UniqueId(rows)
    /\ UniqueBarcode(rows)
    /\ SpielartEnum(row)
    /\ RatingCheck(row)

\* The columns of the row that TypeORM writes for an entity.  An undefined
\* lieferbar is written as DEFAULT (FALSE), an undefined schlagwoerter as NULL.
RowOf(entity, id, version) ==
    [ id |-> id, version |-> version,
      barcode |-> entity.barcode,
      rating |-> entity.rating,
      art |-> entity.art,
      preis |-> RoundToScale(entity.preis, PREIS_SCALE),
      rabatt |-> RoundToScale(entity.rabatt[1], RABATT_SCALE),
      lieferbar |-> OrElse(entity.lieferbar, FALSE),
      datum |-> entity.datum,
      homepage |-> entity.homepage,
      schlagwoerter |->
          IF IsSome(entity.schlagwoerter)
          THEN Some(SimpleArrayToString(entity.schlagwoerter[1]))
          ELSE None,
      erzeugt |-> OrElse(entity.erzeugt, DateOfSchema) ]

\* The entity that TypeORM builds from a row of spiel and its row of name.
EntityOf(row, nameRow) ==
    [ id |-> Some(row.id), version |-> Some(row.version),
      barcode |-> row.barcode,
      rating |-> row.rating,
      art |-> row.art,
      preis |-> row.preis,
      rabatt |-> Some(row.rabatt),
      lieferbar |-> Some(row.lieferbar),
      datum |-> row.datum,
      homepage |-> row.homepage,
      schlagwoerter |->
          IF IsSome(row.schlagwoerter)
          THEN Some(StringToSimpleArray(row.schlagwoerter[1]))
          ELSE None,
      name |-> Some([ id |-> Some(nameRow.id), name |-> nameRow.name,
                      untertitel |-> nameRow.untertitel ]),
      erzeugt |-> Some(row.erzeugt) ]

\* QueryBuilder.buildId(...).getOne(): spiel inner join name where spiel.id = id
BuildId(id) ==
    { EntityOf(r, n) : << r, n >> \in
        { rn \in spiel \X name : rn[1].id = id /\ rn[2].spiel_id = id } }

\* SpielReadService.findById: None stands for the NotFoundException
FindById(id) ==
    IF BuildId(id) = { } THEN None
    ELSE LET found == CHOOSE e \in BuildId(id) : TRUE
         IN  Some(IF IsSome(found.schlagwoerter) THEN found
                  ELSE [ found EXCEPT !.schlagwoerter = Some(<< >>) ])

\* Repository.existsBy({ barcode })
ExistsByBarcode(barcode) == \E r \in spiel : r.barcode = barcode

\* the first version TypeORM writes into a @VersionColumn on INSERT
FIRST_VERSION == 1

\* Repository.merge(spielDb, spiel): the defined properties of `spiel`
\* replace those of `spielDb`
Merge(spielDb, entity) ==
    [ spielDb EXCEPT
        !.barcode = entity.barcode,
        !.rating = entity.rating,
        !.art = IF IsSome(entity.art) THEN entity.art ELSE @,
        !.preis = entity.preis,
        !.rabatt = IF IsSome(entity.rabatt) THEN entity.rabatt ELSE @,
        !.lieferbar = IF IsSome(entity.lieferbar) THEN entity.lieferbar ELSE @,
        !.datum = IF IsSome(entity.datum) THEN entity.datum ELSE @,
        !.homepage = IF IsSome(entity.homepage) THEN entity.homepage ELSE @,
        !.schlagwoerter =
            IF IsSome(entity.schlagwoerter) THEN entity.schlagwoerter ELSE @,
        !.erzeugt = IF IsSome(entity.erzeugt) THEN entity.erzeugt ELSE @ ]

\* ----------------------------------------------------- requests, responses

\* A slot without a request.  pc is the place of the handler: "idle",
\* "save" (PUT: between findById and save), "insert" (POST: between existsBy
\* and save), "mail" (POST: between save and sendmail), "transaction"
\* (DELETE: between findById and the transaction), "fileDelete", "fileLoad",
\* "fileInsert" (upload: before the delete of the old files, before and
\* within save), "done" (answered).  spielDb, bilder and fileDb hold what the
\* handler has read, file the uploaded file, deleted the result of delete.
IdleReq ==
    [ op |-> "none", pc |-> "idle", id |-> 0, dto |-> None, header |-> None,
      spielDb |-> None, bilder |-> { }, file |-> None, fileDb |-> { },
      outcome |-> "none", status |-> 0, ret |-> 0, deleted |-> None,
      etag |-> None, body |-> None ]

\* status codes of the responses: those of the exception classes and of
\* the framework's defaults
HttpStatusOf(outcome) ==
    CASE outcome = "Ok" -> 200
      [] outcome = "Created" -> 201
      [] outcome = "NoContent" -> 204
      [] outcome = "NotModified" -> 304
      [] outcome = "BadRequest" -> 400
      [] outcome = "Unauthorized" -> 401
      [] outcome = "Forbidden" -> 403
      [] outcome = "NotFound" -> 404
      [] outcome = "NotAcceptable" -> 406
      [] outcome = "VersionInvalid" -> 412
      [] outcome = "VersionOutdated" -> 412
      [] outcome = "BarcodeExists" -> 422
      [] outcome = "PreconditionRequired" -> 428
      [] OTHER -> 500

\* The request `r` answered with `outcome`.  The slot of an answered
\* request holds the response; of the request it keeps the operation, and
\* `keep` says whether it keeps the id, the header and the entity as well.
Answer(r, outcome, keep) ==
    [ (IF keep THEN [ r EXCEPT !.dto = None ] ELSE IdleReq) EXCEPT
        !.op = r.op, !.pc = "done", !.outcome = outcome,
        !.status = HttpStatusOf(outcome) ]

\* requests between their database read and their database write
InFlight(pc) == Cardinality({ q \in Procs : req[q].pc = pc })

\* ------------------------------------------------------------------- init

SeedRow(version) ==
    [ id |-> SeedId, version |-> version, barcode |-> BarcodeSeed,
      rating |-> 4, art |-> Some("BRETTSPIEL"), preis |-> 111100,
      rabatt |-> 110, lieferbar |-> TRUE, datum |-> Some("2022-02-01"),
      homepage |-> Some("https://acme.at"),
      schlagwoerter |-> Some(<< "JAVASCRIPT" >>),
      erzeugt |-> DateOfSchema ]

SeedNameRow ==
    [ id |-> SeedId, name |-> NameSeed.name,
      untertitel |-> NameSeed.untertitel, spiel_id |-> SeedId ]

\* the images of the seeded item
SeedBildRows ==
    { [ id |-> 1, beschriftung |-> "Abb. 1", content_type |-> "img/png",
        spiel_id |-> SeedId ],
      [ id |-> 2, beschriftung |-> "Abb. 2", content_type |-> "img/png",
        spiel_id |-> SeedId ] }

Init ==
    /\ \E version \in { 0, SeedVersionHigh } : spiel = { SeedRow(version) }
    /\ name = { SeedNameRow }
    /\ bild = SeedBildRows
    /\ spielFile = { }
    /\ fileSeq = FIRST_ID
    /\ spielSeq = FIRST_ID
    /\ nameSeq = FIRST_ID
    /\ mails = << >>
    /\ req = [ p \in Procs |-> IdleReq ]
    /\ writes = 0
    /\ updatedIds = { }

\* -------------------------------------------------------------------- PUT

\* #validateUpdate with findById before the format check of the version
ValidateUpdateFindFirst(r) ==
    LET versionStr == r.header[1]
        version == ParseInt(Slice1(versionStr))
        spielDb == FindById(r.id)
    IN  IF ~IsSome(spielDb) THEN "NotFound"
        ELSE IF ~VersionPatternTest(versionStr) THEN "VersionInvalid"
        ELSE IF NumLess(version, spielDb[1].version[1]) THEN "VersionOutdated"
        ELSE "save"

\* #validateUpdate without the comparison of the versions
ValidateUpdateNoCompare(r) ==
    LET versionStr == r.header[1]
        spielDb == FindById(r.id)
    IN  IF ~VersionPatternTest(versionStr) THEN "VersionInvalid"
        ELSE IF ~IsSome(spielDb) THEN "NotFound"
        ELSE "save"

\* SpielWriteService.#validateUpdate: the outcome of the version check and
\* of findById for a request `r`; "save" when the update goes on.
ValidateUpdate(r) ==
    LET versionStr == r.header[1]
        version == ParseInt(Slice1(versionStr))
        spielDb == FindById(r.id)
    IN  IF ~VersionPatternTest(versionStr) THEN "VersionInvalid"
        ELSE IF ~IsSome(spielDb) THEN "NotFound"
        ELSE IF NumLess(version, spielDb[1].version[1]) THEN "VersionOutdated"
        ELSE "save"

\* put that hands a missing If-Match header on to the service, whose format
\* check refuses it
IfMatchHandedOn(version) ==
    IF IsSome(version) THEN "update" ELSE "VersionInvalid"

\* SpielWriteController.put: the check of the If-Match header; "update"
\* when put goes on to the service.
IfMatchCheck(version) ==
    IF IsSome(version) THEN "update" ELSE "PreconditionRequired"

\* SpielWriteController.put and SpielWriteService.update up to the await of
\* save: validation of the body, the If-Match header, #validateUpdate.
Put(p, id, spielDTO, version) ==
    /\ req[p].pc = "idle"
    /\ LET r == [ IdleReq EXCEPT !.op = "put", !.id = id,
                                 !.dto = Some(spielDTO), !.header = version ]
           validateResult == ValidateUpdate(r)
       IN  IF ~ValidSpielDtoOhneRef(spielDTO)
           THEN req' = [ req EXCEPT ![p] = Answer(r, "BadRequest", FALSE) ]
           ELSE IF IfMatchCheck(version) # "update"
           THEN req' = [ req EXCEPT ![p] =
                           Answer(r, IfMatchCheck(version), FALSE) ]
           ELSE IF validateResult # "save"
           THEN req' = [ req EXCEPT ![p] = Answer(r, validateResult, FALSE) ]
           ELSE /\ writes + InFlight("save") < MaxUpdates
                /\ req' = [ req EXCEPT ![p] =
                              [ r EXCEPT !.pc = "save",
                                         !.spielDb = FindById(id) ] ]
    /\ UNCHANGED << spiel, name, bild, spielFile, fileSeq, spielSeq, nameSeq,
                    mails, writes, updatedIds >>

\* save that writes the version it has read
SavedRowSameVersion(merged, old) == RowOf(merged, old.id, old.version)

\* The row that Repository.save writes for the merged entity over the stored
\* row `old`: the entity's columns, the version column counted up by one.
SavedRow(merged, old) == RowOf(merged, old.id, old.version + 1)

\* SpielWriteService.update from the merge on: save is one UPDATE statement
\* on the row with the entity's id; put answers with the version read back.
\* For an item that has been deleted since findById, save has a row to
\* insert with an id of its own, which the column spiel.id, GENERATED
\* ALWAYS AS IDENTITY, refuses.
PutSave(p) ==
    /\ req[p].pc = "save"
    /\ LET r == req[p]
           merged == Merge(r.spielDb[1], SpielDtoOhneRefToSpiel(r.dto[1]))
           old == { row \in spiel : row.id = r.id }
           new == { SavedRow(merged, row) : row \in old }
           rows == (spiel \ old) \cup new
       IN  IF old # { } /\ \A row \in new : ConstraintsHold(rows, row)
           THEN LET updated == CHOOSE row \in new : TRUE
                IN  /\ spiel' = rows
                    /\ updatedIds' = updatedIds \cup { r.id }
                    /\ req' = [ req EXCEPT ![p] =
                                  [ Answer(r, "NoContent", TRUE) EXCEPT
                                      !.ret = updated.version,
                                      !.etag = Some(ETagOf(updated.version)) ] ]
           ELSE /\ req' = [ req EXCEPT ![p] = Answer(r, "QueryFailed", FALSE) ]
                /\ UNCHANGED << spiel, updatedIds >>
    /\ writes' = writes + 1
    /\ UNCHANGED << name, bild, spielFile, fileSeq, spielSeq, nameSeq, mails >>

\* ------------------------------------------------------------------- POST

\* #validateCreate without the existsBy
NoValidateCreate(entity) == TRUE

\* SpielWriteService.#validateCreate: does create go on to the insert?
ValidateCreate(entity) == ~ExistsByBarcode(entity.barcode)

\* SpielWriteController.post and SpielWriteService.create up to the await of
\* save: validation of the body, #spielDtoToSpiel, #validateCreate.
Post(p, spielDTO) ==
    /\ req[p].pc = "idle"
    /\ LET r == [ IdleReq EXCEPT !.op = "post", !.dto = Some(spielDTO) ]
           entity == SpielDtoToSpiel(spielDTO)
       IN  IF ~ValidSpielDTO(spielDTO)
           THEN req' = [ req EXCEPT ![p] = Answer(r, "BadRequest", FALSE) ]
           ELSE IF ~ValidateCreate(entity)
           THEN req' = [ req EXCEPT ![p] = Answer(r, "BarcodeExists", FALSE) ]
           ELSE /\ (spielSeq - FIRST_ID) + InFlight("insert") < MaxInserts
                /\ req' = [ req EXCEPT ![p] =
                              [ r EXCEPT !.pc = "insert",
                                         !.spielDb = Some(entity) ] ]
    /\ UNCHANGED << spiel, name, bild, spielFile, fileSeq, spielSeq, nameSeq,
                    mails, writes, updatedIds >>

\* the value the identity sequence of spiel.id hands out
NextId == spielSeq

\* SpielWriteService.create: save inserts the row of spiel and, by cascade,
\* the row of name in one transaction.  A violated unique constraint ends
\* the request after the identity sequence has handed out its value; a
\* value that is not of the column's type is refused before that.
PostSave(p) ==
    /\ req[p].pc = "insert"
    /\ LET r == req[p]
           entity == r.spielDb[1]
           row == RowOf(entity, NextId, FIRST_VERSION)
           rows == spiel \cup { row }
           nameRow == [ id |-> nameSeq, name |-> entity.name[1].name,
                        untertitel |-> entity.name[1].untertitel,
                        spiel_id |-> row.id ]
       IN  IF ConstraintsHold(rows, row) /\ row \notin spiel
           THEN /\ spiel' = rows
                /\ name' = name \cup { nameRow }
                /\ spielSeq' = spielSeq + 1
                /\ nameSeq' = nameSeq + 1
                /\ req' = [ req EXCEPT ![p] =
                              [ r EXCEPT !.pc = "mail", !.id = row.id ] ]
           ELSE /\ req' = [ req EXCEPT ![p] = Answer(r, "QueryFailed", FALSE) ]
                /\ spielSeq' = IF SpielartEnum(row) /\ RatingCheck(row)
                               THEN spielSeq + 1 ELSE spielSeq
                /\ UNCHANGED << spiel, name, nameSeq >>
    /\ UNCHANGED << bild, spielFile, fileSeq, mails, writes, updatedIds >>

\* create that answers without the call of #sendmail
PostWithoutMail(p) ==
    /\ req[p].pc = "mail"
    /\ req' = [ req EXCEPT ![p] =
                  [ Answer(req[p], "Created", TRUE) EXCEPT
                      !.ret = req[p].id, !.dto = req[p].dto ] ]
    /\ UNCHANGED << spiel, name, bild, spielFile, fileSeq, spielSeq, nameSeq,
                    mails, writes, updatedIds >>

\* SpielWriteService.#sendmail, then create returns the id and post answers
\* with the Location of the new item.  The slot keeps the request body.
PostMail(p) ==
    /\ req[p].pc = "mail"
    /\ mails' = Append(mails, [ subject |-> req[p].id,
                                name |-> req[p].spielDb[1].name[1].name ])
    /\ req' = [ req EXCEPT ![p] =
                  [ Answer(req[p], "Created", TRUE) EXCEPT
                      !.ret = req[p].id, !.dto = req[p].dto ] ]
    /\ UNCHANGED << spiel, name, bild, spielFile, fileSeq, spielSeq, nameSeq,
                    writes, updatedIds >>

\* -------------------------------------------------------------------- GET

\* getById that does not compare If-None-Match with the stored version
GetByIdResponseUnconditional(r, id, version) ==
    LET spiel_ == FindById(id)
    IN  IF ~IsSome(spiel_) THEN Answer(r, "NotFound", FALSE)
        ELSE [ Answer(r, "Ok", FALSE) EXCEPT
                 !.etag = Some(ETagOf(spiel_[1].version[1])),
                 !.body = spiel_ ]

\* SpielGetController.getById from findById on: the response to
\* GET /rest/:id with the header If-None-Match = version for the request `r`
GetByIdResponse(r, id, version) ==
    LET spiel_ == FindById(id)
    IN  IF ~IsSome(spiel_) THEN Answer(r, "NotFound", FALSE)
        ELSE IF version = Some(ETagOf(spiel_[1].version[1]))
        THEN Answer(r, "NotModified", FALSE)
        ELSE [ Answer(r, "Ok", FALSE) EXCEPT
                 !.etag = Some(ETagOf(spiel_[1].version[1])),
                 !.body = spiel_ ]

\* SpielGetController.getById for a request whose Accept header admits JSON
\* or HTML (`accepts`) or neither of them
GetById(p, id, version, accepts) ==
    /\ req[p].pc = "idle"
    /\ LET r == [ IdleReq EXCEPT !.op = "get", !.id = id, !.header = version ]
       IN  req' = [ req EXCEPT ![p] =
                      IF ~accepts THEN Answer(r, "NotAcceptable", FALSE)
                      ELSE GetByIdResponse(r, id, version) ]
    /\ UNCHANGED << spiel, name, bild, spielFile, fileSeq, spielSeq, nameSeq,
                    mails, writes, updatedIds >>

\* The response has been sent: the slot takes the next request.
Finish(p) ==
    /\ req[p].pc = "done"
    /\ req' = [ req EXCEPT ![p] = IdleReq ]
    /\ UNCHANGED << spiel, name, bild, spielFile, fileSeq, spielSeq, nameSeq,
                    mails, writes, updatedIds >>

\* ----------------------------------------------------------------- search

\* The characters of the strings that a search takes apart: names, keywords
\* and the values of criteria.
Chars(str) ==
    CASE str = "Alpha" -> << "A", "l", "p", "h", "a" >>
      [] str = "Beta" -> << "B", "e", "t", "a" >>
      [] str = "Gamma" -> << "G", "a", "m", "m", "a" >>
      [] str = "Delta" -> << "D", "e", "l", "t", "a" >>
      [] str = "a" -> << "a" >>
      [] str = "AL" -> << "A", "L" >>
      [] str = "xx" -> << "x", "x" >>
      [] str = "JAVASCRIPT" ->
           << "J", "A", "V", "A", "S", "C", "R", "I", "P", "T" >>
      [] str = "TYPESCRIPT" ->
           << "T", "Y", "P", "E", "S", "C", "R", "I", "P", "T" >>
      [] str = "JAVA" -> << "J", "A", "V", "A" >>
      [] str = "PYTHON" -> << "P", "Y", "T", "H", "O", "N" >>
      [] str = "python" -> << "p", "y", "t", "h", "o", "n" >>
      [] str = "2" -> << "2" >>
      [] str = "4" -> << "4" >>
      [] str = "5" -> << "5" >>
      [] str = "abc" -> << "a", "b", "c" >>
      [] str = "20" -> << "2", "0" >>
      [] str = "11.11" -> << "1", "1", ".", "1", "1" >>

\* the lower-case letter of a letter of the names
LowerCase(c) ==
    CASE c = "A" -> "a"
      [] c = "B" -> "b"
      [] c = "D" -> "d"
      [] c = "G" -> "g"
      [] c = "L" -> "l"
      [] OTHER -> c

Lower(text) == [ i \in 1..Len(text) |-> LowerCase(text[i]) ]

\* text like '%part%'
Contains(text, part) ==
    \E i \in 0..(Len(text) - Len(part)) :
        SubSeq(text, i + 1, i + Len(part)) = part

\* a REPLACE that leaves the text as it is
NoReplace(text, part) == text

\* REPLACE(text, part, '')
RECURSIVE Replace(_, _)
Replace(text, part) ==
    IF Len(text) < Len(part) THEN text
    ELSE IF SubSeq(text, 1, Len(part)) = part
    THEN Replace(SubSeq(text, Len(part) + 1, Len(text)), part)
    ELSE << Head(text) >> \o Replace(Tail(text), part)

\* the characters of a text of column schlagwoerter, which the model
\* stores as its parts between the commas
RECURSIVE TextOf(_)
TextOf(parts) ==
    IF Len(parts) = 0 THEN << >>
    ELSE IF Len(parts) = 1 THEN Chars(parts[1])
    ELSE Chars(parts[1]) \o << "," >> \o TextOf(Tail(parts))

\* Number(str) in the unit of the decimals: digits, then optionally a
\* point and up to DecimalPlaces digits; NaN otherwise
NumberOf(text) ==
    LET dots == { i \in 1..Len(text) : text[i] = "." }
        dot == IF dots = { } THEN Len(text) + 1
               ELSE CHOOSE i \in dots : \A j \in dots : i <= j
        whole == SubSeq(text, 1, dot - 1)
        places == SubSeq(text, dot + 1, Len(text))
    IN  IF \/ Len(whole) = 0
           \/ \E i \in 1..Len(whole) : ~IsDigit(whole[i])
           \/ \E i \in 1..Len(places) : ~IsDigit(places[i])
           \/ Len(places) > DecimalPlaces
        THEN NaN
        ELSE ParseDigits(whole, 1, 0) * DecimalOne
               + ParseDigits(places, 1, 0) * Pow10(DecimalPlaces - Len(places))

\* Object.getOwnPropertyNames(new Spiel())
SpielProps ==
    { "id", "version", "barcode", "rating", "art", "preis", "rabatt",
      "lieferbar", "datum", "homepage", "schlagwoerter", "name", "bilder",
      "file", "erzeugt", "aktualisiert", "toString" }

\* a search that takes every key for a criterion
NoCheckKeys(keys) == TRUE

\* SpielReadService.#checkKeys
CheckKeys(keys) ==
    \A key \in keys :
        \/ key \in SpielProps
        \/ key \in { "javascript", "typescript", "java", "python" }

\* SpielReadService.#checkEnums
CheckEnums(suchkriterien) ==
    \/ "art" \notin DOMAIN suchkriterien
    \/ suchkriterien.art \in { "EPUB", "HARDCOVER", "PAPERBACK" }

\* SelectQueryBuilder.where: the condition becomes the WHERE clause
Where(queryBuilder, condition) ==
    [ queryBuilder EXCEPT !.where = << condition >> ]

\* SelectQueryBuilder.andWhere: the condition is added to the WHERE clause
AndWhere(queryBuilder, condition) ==
    [ queryBuilder EXCEPT !.where = Append(@, condition) ]

\* useWhere ? queryBuilder.where(...) : queryBuilder.andWhere(...)
WhereOrAndWhere(queryBuilder, condition, useWhere) ==
    IF useWhere THEN Where(queryBuilder, condition)
    ELSE AndWhere(queryBuilder, condition)

\* Object.entries(restProps).forEach: a condition of equality for every
\* remaining key
RECURSIVE RestProps(_, _, _, _)
RestProps(queryBuilder, suchkriterien, keys, useWhere) ==
    IF keys = { } THEN queryBuilder
    ELSE LET key == CHOOSE k \in keys : TRUE
             condition == [ op |-> "equal", key |-> key,
                            arg |-> suchkriterien[key] ]
         IN  RestProps(WhereOrAndWhere(queryBuilder, condition, useWhere),
                       suchkriterien, keys \ { key }, FALSE)

\* pageable.ts: the page size and the page number of a descriptor without
DEFAULT_PAGE_SIZE == 5

DEFAULT_PAGE_NUMBER == 0

\* a keyword flag that counts as set whatever its value is
FlagPresent(suchkriterien, key) == key \in DOMAIN suchkriterien

\* javascript === 'true', and so for typescript, java and python
FlagSet(suchkriterien, key) ==
    key \in DOMAIN suchkriterien /\ suchkriterien[key] = "true"

\* QueryBuilder.build: the WHERE clause as the sequence of its conditions,
\* which all have to hold, and the rows to take and to skip.
Build(suchkriterien, pageable) ==
    LET Has(key) == key \in DOMAIN suchkriterien
        IsTrue(key) == FlagSet(suchkriterien, key)
        Like(key) == [ op |-> "like", key |-> "schlagwoerter", arg |-> key ]
        q0 == [ where |-> << >>, take |-> None, skip |-> None ]
        q1 == IF Has("name")
              THEN Where(q0, [ op |-> "ilike", key |-> "name",
                               arg |-> suchkriterien.name ])
              ELSE q0
        u1 == ~Has("name")
        hasRating == Has("rating") /\ ParseInt(Chars(suchkriterien.rating)) # NaN
        q2 == IF hasRating
              THEN Where(q1, [ op |-> "atLeast", key |-> "rating",
                               arg |-> ParseInt(Chars(suchkriterien.rating)) ])
              ELSE q1
        u2 == u1 /\ ~hasRating
        q3 == IF Has("preis")
              THEN Where(q2, [ op |-> "atMost", key |-> "preis",
                               arg |-> NumberOf(Chars(suchkriterien.preis)) ])
              ELSE q2
        u3 == u2 /\ ~Has("preis")
        q4 == IF IsTrue("javascript")
              THEN WhereOrAndWhere(q3, Like("JAVASCRIPT"), u3) ELSE q3
        u4 == u3 /\ ~IsTrue("javascript")
        q5 == IF IsTrue("typescript")
              THEN WhereOrAndWhere(q4, Like("TYPESCRIPT"), u4) ELSE q4
        u5 == u4 /\ ~IsTrue("typescript")
        q6 == IF IsTrue("java")
              THEN WhereOrAndWhere(q5, [ op |-> "likeWithout",
                                         key |-> "schlagwoerter",
                                         arg |-> "JAVA" ], u5)
              ELSE q5
        u6 == u5 /\ ~IsTrue("java")
        q7 == IF IsTrue("python")
              THEN WhereOrAndWhere(q6, Like("PYTHON"), u6) ELSE q6
        u7 == u6 /\ ~IsTrue("python")
        rest == DOMAIN suchkriterien
                  \ { "name", "rating", "preis", "javascript", "typescript",
                      "java", "python" }
        q8 == RestProps(q7, suchkriterien, rest, u7)
        size == OrElse(pageable.size, DEFAULT_PAGE_SIZE)
        number == OrElse(pageable.number, DEFAULT_PAGE_NUMBER)
    IN  IF pageable.size = Some(0) THEN q8
        ELSE [ q8 EXCEPT !.take = Some(size), !.skip = Some(number * size) ]

\* the columns of table spiel
Columns ==
    { "id", "version", "barcode", "rating", "art", "preis", "rabatt",
      "lieferbar", "datum", "homepage", "schlagwoerter", "erzeugt",
      "aktualisiert" }

\* Does the database refuse a statement with this condition?  It does for
\* a name that is not a column, for a category that is not of type
\* spielart, and for a price that is not a number.
Refused(condition) ==
    \/ condition.op = "equal" /\ condition.key \notin Columns
    \/ /\ condition.op = "equal"
       /\ condition.key = "art"
       /\ condition.arg \notin { "BRETTSPIEL", "COMPUTERSPIEL", "ACTIONSPIEL" }
    \/ condition.op = "atMost" /\ condition.arg = NaN

\* Does the condition hold for the row of spiel joined with its row of name?
Holds(condition, row, nameRow) ==
    CASE condition.op = "ilike" ->
           Contains(Lower(Chars(nameRow.name)), Lower(Chars(condition.arg)))
      [] condition.op = "atLeast" -> row.rating >= condition.arg
      [] condition.op = "atMost" -> row.preis <= condition.arg
      [] condition.op = "like" ->
           /\ IsSome(row.schlagwoerter)
           /\ Contains(TextOf(row.schlagwoerter[1]), Chars(condition.arg))
      [] condition.op = "likeWithout" ->
           /\ IsSome(row.schlagwoerter)
           /\ Contains(Replace(TextOf(row.schlagwoerter[1]),
                               Chars("JAVASCRIPT")),
                       Chars(condition.arg))
      [] condition.op = "equal" ->
           CASE condition.key = "barcode" -> row.barcode = condition.arg
             [] condition.key = "art" -> row.art = Some(condition.arg)
             [] condition.key = "lieferbar" ->
                  row.lieferbar = (condition.arg = "true")
             [] condition.key = "homepage" -> row.homepage = Some(condition.arg)
             [] condition.key = "datum" -> row.datum = Some(condition.arg)
             [] OTHER -> FALSE

\* the items that the query selects: spiel inner join name, WHERE
Selected(queryBuilder) ==
    { EntityOf(rn[1], rn[2]) : rn \in
        { pair \in spiel \X name :
            /\ pair[2].spiel_id = pair[1].id
            /\ \A i \in 1..Len(queryBuilder.where) :
                  Holds(queryBuilder.where[i], pair[1], pair[2]) } }

\* the orders in which a query without ORDER BY can return the rows
RECURSIVE Orders(_)
Orders(rows) ==
    IF rows = { } THEN { << >> }
    ELSE UNION { { << row >> \o order : order \in Orders(rows \ { row }) } :
                 row \in rows }

\* take(size) without skip: always the first rows
PagedWithoutSkip(order, queryBuilder) ==
    IF ~IsSome(queryBuilder.take) THEN order
    ELSE SubSeq(order, 1, IF queryBuilder.take[1] < Len(order)
                          THEN queryBuilder.take[1] ELSE Len(order))

\* take(size).skip(skip) on the rows in the order of the query
Paged(order, queryBuilder) ==
    IF ~IsSome(queryBuilder.take) THEN order
    ELSE LET first == queryBuilder.skip[1] + 1
             last == queryBuilder.skip[1] + queryBuilder.take[1]
         IN  SubSeq(order, first, IF last < Len(order) THEN last ELSE Len(order))

\* queryBuilder.getMany(): the lists that the query can return
GetMany(queryBuilder) ==
    { Paged(order, queryBuilder) : order \in Orders(Selected(queryBuilder)) }

\* queryBuilder.getCount(): the number of selected items, without paging
GetCount(queryBuilder) == Cardinality(Selected(queryBuilder))

\* SpielReadService.#createSlice
CreateSlice(spiele, totalElements) ==
    [ content |->
        [ i \in 1..Len(spiele) |->
            IF IsSome(spiele[i].schlagwoerter) THEN spiele[i]
            ELSE [ spiele[i] EXCEPT !.schlagwoerter = Some(<< >>) ] ],
      totalElements |-> totalElements ]

\* SpielGetController.get: the query parameters without page and size
Suchkriterien(query) ==
    [ key \in DOMAIN query \ { "page", "size" } |-> query[key] ]

\* SpielGetController.get and SpielReadService.find or #findAll up to the
\* await of getCount: the Accept header, the criteria without the paging
\* parameters, #checkKeys, #checkEnums, build and getMany.  The page
\* descriptor of createPageable is an input of its own.
Find(p, query, pageable, accepts) ==
    /\ req[p].pc = "idle"
    /\ LET r == [ IdleReq EXCEPT !.op = "find" ]
           suchkriterien == Suchkriterien(query)
           queryBuilder == Build(suchkriterien, pageable)
       IN  IF ~accepts
           THEN req' = [ req EXCEPT ![p] = Answer(r, "NotAcceptable", FALSE) ]
           ELSE IF /\ DOMAIN suchkriterien # { }
                   /\ (\/ ~CheckKeys(DOMAIN suchkriterien)
                       \/ ~CheckEnums(suchkriterien))
           THEN req' = [ req EXCEPT ![p] = Answer(r, "NotFound", FALSE) ]
           ELSE IF \E i \in 1..Len(queryBuilder.where) :
                     Refused(queryBuilder.where[i])
           THEN req' = [ req EXCEPT ![p] = Answer(r, "QueryFailed", FALSE) ]
           ELSE \E spiele \in GetMany(queryBuilder) :
                  IF Len(spiele) = 0
                  THEN req' = [ req EXCEPT ![p] = Answer(r, "NotFound", FALSE) ]
                  ELSE req' = [ req EXCEPT ![p] =
                                  [ r EXCEPT
                                      !.pc = "count",
                                      !.dto = Some(suchkriterien),
                                      !.body = Some([ content |-> spiele ]) ] ]
    /\ UNCHANGED << spiel, name, bild, spielFile, fileSeq, spielSeq, nameSeq,
                    mails, writes, updatedIds >>

\* SpielReadService.find from getCount on: the slice is returned.
FindCount(p) ==
    /\ req[p].pc = "count"
    /\ LET r == req[p]
           queryBuilder == Build(r.dto[1], [ number |-> None, size |-> Some(0) ])
       IN  req' = [ req EXCEPT ![p] =
                      [ Answer(r, "Ok", FALSE) EXCEPT
                          !.body = Some(CreateSlice(r.body[1].content,
                                                    GetCount(queryBuilder))) ] ]
    /\ UNCHANGED << spiel, name, bild, spielFile, fileSeq, spielSeq, nameSeq,
                    mails, writes, updatedIds >>

\* the criteria of the searches: none, one and several recognized keys,
\* keys that are no property of an item, the paging parameters of REST
Queries ==
    { << >>,
      [ name |-> "a" ],
      [ name |-> "xx" ],
      [ name |-> "AL", rating |-> "5" ],
      [ name |-> "a", rating |-> "5", preis |-> "20" ],
      [ rating |-> "4", javascript |-> "true" ],
      [ rating |-> "abc" ],
      [ preis |-> "11.11" ],
      [ java |-> "true" ],
      [ javascript |-> "true", python |-> "false" ],
      [ typescript |-> "true" ],
      [ javascript |-> "true" ],
      [ python |-> "true" ],
      [ python |-> "false" ],
      [ java |-> "TRUE", typescript |-> "1" ],
      [ art |-> "BRETTSPIEL" ],
      [ art |-> "COMPUTERSPIEL", rating |-> "2" ],
      [ art |-> "EPUB" ],
      [ barcode |-> BarcodeSeed, lieferbar |-> "true" ],
      [ foo |-> "bar" ],
      [ foo |-> "bar", file |-> "a", name |-> "a" ],
      [ page |-> "2", size |-> "1" ],
      [ name |-> "a", page |-> "1", size |-> "5" ] }

\* the page descriptors: the defaults, pages of one item, no paging
Pageables ==
    { [ number |-> None, size |-> None ],
      [ number |-> Some(0), size |-> Some(1) ],
      [ number |-> Some(1), size |-> Some(1) ],
      [ number |-> Some(1), size |-> Some(2) ],
      [ number |-> Some(1), size |-> None ],
      [ number |-> Some(0), size |-> Some(0) ] }

\* further rows loaded with the schema
SampleRows ==
    { SeedRow(0),
      [ SeedRow(0) EXCEPT !.id = 20, !.barcode = BarcodeNew, !.rating = 2,
                          !.art = Some("COMPUTERSPIEL"), !.preis = 222200,
                          !.lieferbar = FALSE, !.schlagwoerter = None ],
      [ SeedRow(0) EXCEPT !.id = 30, !.barcode = BarcodeOther, !.rating = 5,
                          !.art = None, !.preis = 333300,
                          !.schlagwoerter = Some(<< "JAVA", "PYTHON" >>) ],
      [ SeedRow(0) EXCEPT !.id = 40, !.barcode = BarcodeExtra, !.rating = 3,
                          !.preis = 444400,
                          !.schlagwoerter =
                              Some(<< "JAVASCRIPT", "JAVA", "python" >>) ] }

SampleNameRows ==
    { SeedNameRow,
      [ id |-> 20, name |-> "Beta", untertitel |-> None, spiel_id |-> 20 ],
      [ id |-> 30, name |-> "Gamma", untertitel |-> Some("gamma"),
        spiel_id |-> 30 ],
      [ id |-> 40, name |-> "Delta", untertitel |-> None, spiel_id |-> 40 ] }

\* ----------------------------------------------------------------- DELETE

\* the tables that delete writes and those that refer to them
Tables ==
    [ spiel |-> spiel, name |-> name, bild |-> bild, spielFile |-> spielFile ]

\* leftJoinAndSelect of bilder in buildId: the ids of the images of the item
BilderOf(id) == { b.id : b \in { row \in bild : row.spiel_id = id } }

\* SpielWriteService.delete up to the transaction: findById with the images
\* of the item, outside the transaction.
Delete(p, id) ==
    /\ req[p].pc = "idle"
    /\ LET r == [ IdleReq EXCEPT !.op = "delete", !.id = id ]
       IN  IF ~IsSome(FindById(id))
           THEN req' = [ req EXCEPT ![p] = Answer(r, "NotFound", FALSE) ]
           ELSE req' = [ req EXCEPT ![p] =
                           [ r EXCEPT !.pc = "transaction",
                                      !.spielDb = FindById(id),
                                      !.bilder = BilderOf(id) ] ]
    /\ UNCHANGED << spiel, name, bild, spielFile, fileSeq, spielSeq, nameSeq,
                    mails, writes, updatedIds >>

\* transactionalMgr.delete(Name, nameId) and delete(Bild, bild.id) for the
\* images that findById has read
DeleteDependents(db, nameId, bildIds) ==
    [ db EXCEPT !.name = { n \in @ : n.id # nameId },
                !.bild = { b \in @ : b.id \notin bildIds } ]

\* transactionalMgr.delete(Spiel, id)
DeleteSpiel(db, id) == [ db EXCEPT !.spiel = { row \in @ : row.id # id } ]

\* tables without foreign keys
NoForeignKeys(db) == TRUE

\* spiel_id ... REFERENCES spiel of the tables name, bild and spiel_file
ForeignKeysHold(db) ==
    /\ \A n \in db.name : \E row \in db.spiel : row.id = n.spiel_id
    /\ \A b \in db.bild : \E row \in db.spiel : row.id = b.spiel_id
    /\ \A f \in db.spielFile : \E row \in db.spiel : row.id = f.spiel_id

\* statements that are not undone when a later one fails
NoRollback(before, work, failed) == work

\* manager.transaction: the tables after a transaction whose statements
\* have turned `before` into `work`; a failed statement undoes all of them
TransactionResult(before, work, failed) == IF failed THEN before ELSE work

\* SpielWriteService.delete, the transaction: the rows of name and bild
\* that findById has read are deleted, then the row of spiel; the
\* statements of other requests see its writes from the commit on.
DeleteTx(p) ==
    /\ req[p].pc = "transaction"
    /\ LET r == req[p]
           nameId == r.spielDb[1].name[1].id[1]
           dependents == DeleteDependents(Tables, nameId, r.bilder)
           deleted == DeleteSpiel(dependents, r.id)
           failed == ~ForeignKeysHold(deleted)
           work == IF failed THEN dependents ELSE deleted
           after == TransactionResult(Tables, work, failed)
           affected == Cardinality({ row \in dependents.spiel : row.id = r.id })
       IN  /\ spiel' = after.spiel
           /\ name' = after.name
           /\ bild' = after.bild
           /\ req' = [ req EXCEPT ![p] =
                         IF failed THEN Answer(r, "QueryFailed", FALSE)
                         ELSE [ Answer(r, "NoContent", FALSE) EXCEPT
                                  !.id = r.id,
                                  !.deleted = Some(affected > 0) ] ]
    /\ UNCHANGED << spielFile, fileSeq, spielSeq, nameSeq, mails, writes,
                    updatedIds >>

\* ------------------------------------------------------------ file upload

\* the files that clients upload
Uploads ==
    { [ filename |-> "a.png", data |-> "A" ],
      [ filename |-> "b.png", data |-> "B" ] }

\* uploads between their findById and the end of their save
UploadsInFlight ==
    Cardinality({ q \in Procs :
                    req[q].pc \in { "fileDelete", "fileLoad", "fileInsert" } })

\* SpielWriteController.addFile and SpielWriteService.addFile up to the
\* delete of the old files: findById.
AddFile(p, id, file) ==
    /\ req[p].pc = "idle"
    /\ LET r == [ IdleReq EXCEPT !.op = "addFile", !.id = id,
                                 !.file = Some(file) ]
       IN  IF ~IsSome(FindById(id))
           THEN req' = [ req EXCEPT ![p] = Answer(r, "NotFound", FALSE) ]
           ELSE /\ (fileSeq - FIRST_ID) + UploadsInFlight < MaxUploads
                /\ req' = [ req EXCEPT ![p] = [ r EXCEPT !.pc = "fileDelete" ] ]
    /\ UNCHANGED << spiel, name, bild, spielFile, fileSeq, spielSeq, nameSeq,
                    mails, writes, updatedIds >>

\* SpielWriteService.addFile: delete from spiel_file where spiel_id = :id
AddFileDelete(p) ==
    /\ req[p].pc = "fileDelete"
    /\ spielFile' = { f \in spielFile : f.spiel_id # req[p].id }
    /\ req' = [ req EXCEPT ![p].pc = "fileLoad" ]
    /\ UNCHANGED << spiel, name, bild, fileSeq, spielSeq, nameSeq, mails,
                    writes, updatedIds >>

\* Repository.save({ id, file }), the read: save selects the stored item
\* with the file that belongs to it.
AddFileLoad(p) ==
    /\ req[p].pc = "fileLoad"
    /\ req' = [ req EXCEPT ![p] =
                  [ @ EXCEPT !.pc = "fileInsert",
                             !.fileDb = { f.id : f \in
                                 { row \in spielFile :
                                     row.spiel_id = req[p].id } } ] ]
    /\ UNCHANGED << spiel, name, bild, spielFile, fileSeq, spielSeq, nameSeq,
                    mails, writes, updatedIds >>

\* the row of spiel_file that save inserts by cascade
FileRow(id, file, spielId) ==
    [ id |-> id, filename |-> file.filename, data |-> file.data,
      spiel_id |-> spielId ]

\* Repository.save({ id, file }), the write, in one transaction: the new
\* row of spiel_file is inserted; a file that save has read for the item
\* and that is still stored would get spiel_id NULL, which the column
\* refuses.  addFile answers with the Location of the file.
AddFileInsert(p) ==
    /\ req[p].pc = "fileInsert"
    /\ LET r == req[p]
           row == FileRow(fileSeq, r.file[1], r.id)
           replaced == { f \in spielFile : f.id \in r.fileDb }
           work == [ Tables EXCEPT !.spielFile = @ \cup { row } ]
       IN  IF ForeignKeysHold(work) /\ replaced = { }
           THEN /\ spielFile' = work.spielFile
                /\ req' = [ req EXCEPT ![p] =
                              [ Answer(r, "NoContent", FALSE) EXCEPT
                                  !.id = r.id ] ]
           ELSE /\ spielFile' = spielFile
                /\ req' = [ req EXCEPT ![p] = Answer(r, "QueryFailed", FALSE) ]
    /\ fileSeq' = fileSeq + 1
    /\ UNCHANGED << spiel, name, bild, spielSeq, nameSeq, mails, writes,
                    updatedIds >>

\* ------------------------------------------------------------------- spec

IfMatchHeaders == { None } \cup { Some(t) : t \in Tokens }

IfNoneMatchHeaders == { None, Some(ETagOf(0)), Some(ETagOf(FIRST_VERSION)) }

Next ==
    \E p \in Procs :
        \/ \E id \in RequestIds : \E dto \in SpielDtosOhneRef :
              \E version \in IfMatchHeaders : Put(p, id, dto, version)
        \/ PutSave(p)
        \/ \E dto \in SpielDTOs : Post(p, dto)
        \/ PostSave(p)
        \/ PostMail(p)
        \/ \E id \in RequestIds : \E version \in IfNoneMatchHeaders :
              \E accepts \in BOOLEAN : GetById(p, id, version, accepts)
        \/ Finish(p)

Spec == Init /\ [][Next]_vars

\* create, delete and file upload
NextDelete ==
    \E p \in Procs :
        \/ \E id \in RequestIds : Delete(p, id)
        \/ DeleteTx(p)
        \/ \E id \in RequestIds : \E file \in Uploads : AddFile(p, id, file)
        \/ AddFileDelete(p)
        \/ AddFileLoad(p)
        \/ AddFileInsert(p)
        \/ \E dto \in SpielDTOs : Post(p, dto)
        \/ PostSave(p)
        \/ PostMail(p)
        \/ Finish(p)

SpecDelete == Init /\ [][NextDelete]_vars

\* search: the tables hold any of the sample rows
InitFind ==
    /\ \E rows \in SUBSET SampleRows :
          /\ Cardinality(rows) <= MaxRows
          /\ spiel = rows
          /\ name = { n \in SampleNameRows :
                        \E row \in rows : row.id = n.spiel_id }
          /\ bild = { b \in SeedBildRows :
                        \E row \in rows : row.id = b.spiel_id }
    /\ spielFile = { }
    /\ fileSeq = FIRST_ID
    /\ spielSeq = FIRST_ID
    /\ nameSeq = FIRST_ID
    /\ mails = << >>
    /\ req = [ p \in Procs |-> IdleReq ]
    /\ writes = 0
    /\ updatedIds = { }

NextFind ==
    \E p \in Procs :
        \/ \E query \in Queries : \E pageable \in Pageables :
              \E accepts \in BOOLEAN : Find(p, query, pageable, accepts)
        \/ FindCount(p)
        \/ Finish(p)

SpecFind == InitFind /\ [][NextFind]_vars

\* search beside create and delete
QueriesBesideWrites == { << >>, [ javascript |-> "true" ] }

PageablesBesideWrites ==
    { [ number |-> None, size |-> None ],
      [ number |-> Some(0), size |-> Some(0) ] }

NextFindWrite ==
    \E p \in Procs :
        \/ \E query \in QueriesBesideWrites :
              \E pageable \in PageablesBesideWrites :
                 Find(p, query, pageable, TRUE)
        \/ FindCount(p)
        \/ \E dto \in SpielDTOs : Post(p, dto)
        \/ PostSave(p)
        \/ PostMail(p)
        \/ \E id \in RequestIds : Delete(p, id)
        \/ DeleteTx(p)
        \/ Finish(p)

SpecFindWrite == Init /\ [][NextFindWrite]_vars

\* update beside create, file upload and delete, each with the ids of the
\* seeded item and of the first created item
IdsBesideWrites == { SeedId, FIRST_ID }

HeadersBesideWrites == { Some(ETagOf(v)) : v \in { 0, SeedVersionHigh } }

NextWrite ==
    \E p \in Procs :
        \/ \E id \in IdsBesideWrites : \E version \in HeadersBesideWrites :
              Put(p, id, GeaendertesSpielBarcode, version)
        \/ PutSave(p)
        \/ Post(p, NeuesSpielOhneArt)
        \/ PostSave(p)
        \/ PostMail(p)
        \/ \E id \in IdsBesideWrites :
              AddFile(p, id, [ filename |-> "a.png", data |-> "A" ])
        \/ AddFileDelete(p)
        \/ AddFileLoad(p)
        \/ AddFileInsert(p)
        \/ \E id \in IdsBesideWrites : Delete(p, id)
        \/ DeleteTx(p)
        \/ Finish(p)

SpecWrite == Init /\ [][NextWrite]_vars

\* bodies that differ in the rating only: 0, 5, -1, 6 and 2.5
RatingsWhole == { 0, MAX_RATING, 0 - 1, MAX_RATING + 1 }

RatingPosts ==
    { [ NeuesSpielOhneArt EXCEPT !.rating = n ] : n \in RatingsWhole }
    \cup { [ NeuesSpielOhneArt EXCEPT !.rating = 2 ] @@ [ ratingTenths |-> 5 ] }

RatingPuts ==
    { [ GeaendertesSpiel EXCEPT !.rating = n ] : n \in RatingsWhole }
    \cup { [ GeaendertesSpiel EXCEPT !.rating = 2 ] @@ [ ratingTenths |-> 5 ] }

\* create and update with these bodies, the updates with the ids of the
\* seeded item and of the first created item
NextRating ==
    \E p \in Procs :
        \/ \E spielDTO \in RatingPosts : Post(p, spielDTO)
        \/ PostSave(p)
        \/ PostMail(p)
        \/ \E id \in IdsBesideWrites : \E version \in HeadersBesideWrites :
              \E spielDTO \in RatingPuts : Put(p, id, spielDTO, version)
        \/ PutSave(p)
        \/ Finish(p)

SpecRating == Init /\ [][NextRating]_vars

\* ---------------------------------------------------------- authentication

\* The Authorization header of a request: none, a bearer token that Keycloak
\* does not verify ('FALSCH' of the tests), and verified tokens with the
\* realm roles of their user.
NoToken == None

TokenFalsch == Some([ valid |-> FALSE, roles |-> { } ])

TokenOf(roles) == Some([ valid |-> TRUE, roles |-> roles ])

BearerTokens ==
    { NoToken, TokenFalsch, TokenOf({ "admin" }), TokenOf({ "user" }),
      TokenOf({ }) }

Authenticated(token) == IsSome(token) /\ token[1].valid

\* AuthGuard of nest-keycloak-connect: a route marked @Public() is let
\* through, any other route needs a bearer token that is verified.
AuthGuard(token, isPublic) == isPublic \/ Authenticated(token)

\* @Roles({ roles }): one of the roles is among those of the token; a route
\* without @Roles (None) is let through.
RoleGuard(token, roles) ==
    \/ roles = None
    \/ Authenticated(token) /\ roles[1] \cap token[1].roles # { }

\* the guards run before the pipes and the handler
Guards(token, isPublic, roles) ==
    IF ~AuthGuard(token, isPublic) THEN "Unauthorized"
    ELSE IF ~RoleGuard(token, roles) THEN "Forbidden"
    ELSE "pass"

\* the answer of a guard that refuses the request
Refuse(p, op, outcome) ==
    /\ req[p].pc = "idle"
    /\ req' = [ req EXCEPT ![p] =
                  Answer([ IdleReq EXCEPT !.op = op ], outcome, FALSE) ]
    /\ UNCHANGED << spiel, name, bild, spielFile, fileSeq, spielSeq, nameSeq,
                    mails, writes, updatedIds >>

\* @Post() @Roles({ roles: ['admin', 'user'] })
GuardedPost(p, token, spielDTO) ==
    LET guards == Guards(token, FALSE, Some({ "admin", "user" }))
    IN  IF guards = "pass" THEN Post(p, spielDTO)
        ELSE Refuse(p, "post", guards)

\* @Put(':id') @Roles({ roles: ['admin', 'user'] })
GuardedPut(p, token, id, spielDTO, version) ==
    LET guards == Guards(token, FALSE, Some({ "admin", "user" }))
    IN  IF guards = "pass" THEN Put(p, id, spielDTO, version)
        ELSE Refuse(p, "put", guards)

\* @Delete(':id') @Roles({ roles: ['admin'] })
GuardedDelete(p, token, id) ==
    LET guards == Guards(token, FALSE, Some({ "admin" }))
    IN  IF guards = "pass" THEN Delete(p, id)
        ELSE Refuse(p, "delete", guards)

\* @Post(':id') @Public(), its @Roles is a comment
GuardedAddFile(p, token, id, file) ==
    LET guards == Guards(token, TRUE, None)
    IN  IF guards = "pass" THEN AddFile(p, id, file)
        ELSE Refuse(p, "addFile", guards)

\* @Get() @Public()
GuardedGet(p, token, query, pageable) ==
    LET guards == Guards(token, TRUE, None)
    IN  IF guards = "pass" THEN Find(p, query, pageable, TRUE)
        ELSE Refuse(p, "find", guards)

\* the routes behind their guards, with the seeded item as the target
NextAuth ==
    \E p \in Procs :
        \/ \E token \in BearerTokens : GuardedPost(p, token, NeuesSpielOhneArt)
        \/ PostSave(p)
        \/ PostMail(p)
        \/ \E token \in BearerTokens : \E version \in HeadersBesideWrites :
              GuardedPut(p, token, SeedId, GeaendertesSpielBarcode, version)
        \/ PutSave(p)
        \/ \E token \in BearerTokens : GuardedDelete(p, token, SeedId)
        \/ DeleteTx(p)
        \/ \E token \in BearerTokens :
              GuardedAddFile(p, token, SeedId,
                             [ filename |-> "a.png", data |-> "A" ])
        \/ AddFileDelete(p)
        \/ AddFileLoad(p)
        \/ AddFileInsert(p)
        \/ \E token \in BearerTokens :
              GuardedGet(p, token, << >>, [ number |-> None, size |-> None ])
        \/ FindCount(p)
        \/ Finish(p)

SpecAuth == Init /\ [][NextAuth]_vars

\* ----------------------------------------------------------------- claims

\* an answered PUT that has written its row
PutSucceeded(p) == req[p].op = "put" /\ req[p].outcome = "NoContent"

\* the version that findById has read for the PUT in slot p
VersionRead(p) == req[p].spielDb[1].version[1]

\* the stored version of the row with `id` (that row exists)
StoredVersion(id) == FindById(id)[1].version[1]

\* the request bodies of PUT that pass validation
ValidPutBodies == { dto \in SpielDtosOhneRef : ValidSpielDtoOhneRef(dto) }

\* the quoted version numbers that pass the format check of the service
CheckedVersions == { v \in TokenVersions : VersionPatternTest(ETagOf(v)) }

\* step of slot p: the slot takes a PUT
TakesPut(p) == req[p].pc = "idle" /\ req'[p].op = "put"

\* C1: of two updates of the same item that carry the same version token,
\* the version that both have read as the stored one, at most one succeeds;
\* the other ends in a version failure, so no successful update is
\* overwritten.
C1_NoLostUpdate ==
    \A p \in Procs : \A q \in Procs :
        (/\ p # q
         /\ PutSucceeded(p)
         /\ req[q].op = "put"
         /\ req[q].pc = "done"
         /\ req[q].id = req[p].id
         /\ req[q].header = req[p].header
         /\ IsSome(req[q].spielDb)
         /\ VersionRead(q) = VersionRead(p)
         /\ req[p].header = Some(ETagOf(VersionRead(p))))
        => req[q].outcome \in { "VersionInvalid", "VersionOutdated" }

\* C2: an update is carried out only if the version number supplied in
\* If-Match is the stored version of the item that the update has read;
\* a lower or a higher number never leads to a write.
C2_OnlyCurrentVersion ==
    \A p \in Procs :
        (req[p].op = "put" /\ (req[p].pc = "save" \/ PutSucceeded(p)))
        => ParseInt(Slice1(req[p].header[1])) = VersionRead(p)

PutAnswered(p) ==
    req'[p].op = "put" /\ req[p].pc # "done" /\ req'[p].pc = "done"

\* The counting of the version column in one step: a row that the step has
\* inserted has the version `first`; a PUT answered with NoContent has
\* raised the stored version of its row by one and returns it; a PUT
\* answered in any other way has left the rows as they were.
VersionCounting(first) ==
    /\ \A row \in spiel' :
         (\A old \in spiel : old.id # row.id) => row.version = first
    /\ \A p \in Procs : PutAnswered(p) =>
         IF req'[p].outcome = "NoContent"
         THEN \E old \in spiel : \E new \in spiel' :
                /\ old.id = req[p].id
                /\ new.id = req[p].id
                /\ new.version = old.version + 1
                /\ req'[p].ret = new.version
                /\ req'[p].etag = Some(ETagOf(new.version))
         ELSE spiel' = spiel

C5_ReturnedVersionIsNextToken ==
    [][\A p \in Procs : TakesPut(p) =>
         \A id \in RequestIds : IsSome(FindById(id)) =>
           \A dto \in ValidPutBodies :
             Put(p, id, dto, Some(ETagOf(StoredVersion(id))))
             => req'[p].pc = "save"]_vars

\* C6: update of an id without item ends with NotFound, whatever version
\* token is supplied, and creates no item.
C6_MissingIdNotFound ==
    [][\A p \in Procs : TakesPut(p) =>
         \A id \in RequestIds : ~IsSome(FindById(id)) =>
           \A t \in Tokens : \A dto \in ValidPutBodies :
             Put(p, id, dto, Some(t))
             => /\ req'[p].pc = "done"
                /\ req'[p].outcome = "NotFound"
                /\ spiel' = spiel
                /\ name' = name]_vars

\* C6, amended: update of an id without item ends with NotFound when the
\* version token passes the format check and with VersionInvalid when it
\* does not; in both cases it creates no item.
C6_MissingIdNotFoundOrInvalid ==
    [][\A p \in Procs : TakesPut(p) =>
         \A id \in RequestIds : ~IsSome(FindById(id)) =>
           \A t \in Tokens : \A dto \in ValidPutBodies :
             Put(p, id, dto, Some(t))
             => /\ req'[p].pc = "done"
                /\ req'[p].outcome =
                     IF VersionPatternTest(t) THEN "NotFound"
                     ELSE "VersionInvalid"
                /\ spiel' = spiel
                /\ name' = name
                /\ \A row \in spiel' : row.id # id]_vars

\* a PUT has been answered with NotFound, another with VersionInvalid, and
\* no row has the id MissingId
C6_Witness ==
    /\ \E p \in Procs : req[p].op = "put" /\ req[p].outcome = "NotFound"
    /\ \E p \in Procs : req[p].op = "put" /\ req[p].outcome = "VersionInvalid"
    /\ \A row \in spiel : row.id # MissingId

\* Is the whole token a double quote, decimal digits, a double quote?
QuotedDecimal(t) ==
    /\ Len(t) >= 3
    /\ t[1] = DQ
    /\ t[Len(t)] = DQ
    /\ \A i \in 2..(Len(t) - 1) : IsDigit(t[i])

\* C7: a version token passes the version check of update only if the
\* whole token is a quoted decimal number; with any other token the update
\* ends with VersionInvalid and never gets to write the item.
C7_OnlyQuotedDecimalAccepted ==
    \A p \in Procs :
        (req[p].op = "put" /\ (req[p].pc = "save" \/ PutSucceeded(p)))
        => QuotedDecimal(req[p].header[1])

\* step of slot p
StepOf(p) == req'[p] # req[p]

\* C8: after every step no two rows of spiel have the same barcode (the
\* table starts with one row); a create whose barcode has been stored
\* since its exists-check, and an update whose barcode belongs to another
\* item, are refused by the database and leave the rows as they were.
C8_BarcodeUnique ==
    [][/\ \A r1 \in spiel' : \A r2 \in spiel' :
            r1.barcode = r2.barcode => r1 = r2
       /\ \A p \in Procs :
            (/\ StepOf(p)
             /\ req[p].pc = "insert"
             /\ \E row \in spiel : row.barcode = req[p].spielDb[1].barcode)
            => /\ req'[p].outcome = "QueryFailed"
               /\ spiel' = spiel
               /\ name' = name
       /\ \A p \in Procs :
            (/\ StepOf(p)
             /\ req[p].pc = "save"
             /\ \E row \in spiel : /\ row.id # req[p].id
                                   /\ row.barcode = req[p].dto[1].barcode)
            => /\ req'[p].outcome = "QueryFailed"
               /\ spiel' = spiel]_vars

\* an update whose barcode belongs to another item has been refused, while
\* a create is between its exists-check and its insert and its barcode has
\* been stored by another create
C8_Witness ==
    \E p \in Procs : \E q \in Procs :
        /\ req[p].op = "put"
        /\ req[p].outcome = "QueryFailed"
        /\ req[q].pc = "insert"
        /\ \E row \in spiel : /\ row.barcode = req[q].spielDb[1].barcode
                              /\ row.id >= FIRST_ID

\* the request bodies of POST that pass validation
ValidPostBodies == { dto \in SpielDTOs : ValidSpielDTO(dto) }

Created(p) ==
    /\ req[p].op = "post"
    /\ req[p].outcome = "Created"
    /\ req[p].ret \notin updatedIds

\* the response to GET /rest/:id without If-None-Match in this state
Get(id) == GetByIdResponse([ IdleReq EXCEPT !.op = "get", !.id = id ], id, None)

\* a non-negative decimal rounded to `places` places after the point
Rounded(x, places) ==
    LET unit == Pow10(DecimalPlaces - places)
    IN  IF (x % unit) * 2 >= unit THEN x - (x % unit) + unit
        ELSE x - (x % unit)

\* the parts between the commas of the keywords, each as one keyword
SplitAtCommas(keywords) ==
    [ i \in 1..Len(Flatten(keywords)) |-> << Flatten(keywords)[i] >> ]

SpielArten == { "BRETTSPIEL", "COMPUTERSPIEL", "ACTIONSPIEL" }

\* a request body of POST whose fields other than the category are valid
ValidButForArt(dto) == ValidSpielDTO([ dto EXCEPT !.art = None ])

\* step of slot p: the slot takes a POST
TakesPost(p) == req[p].pc = "idle" /\ req'[p].op = "post"

\* C11: the validation of a create accepts a category exactly when it is
\* absent or one of BRETTSPIEL, COMPUTERSPIEL, ACTIONSPIEL: a create whose
\* other fields are valid is answered with BadRequest if and only if its
\* category is neither.
C11_ItemCategoryAccepted ==
    [][\A p \in Procs : TakesPost(p) =>
         \A dto \in SpielDTOs : ValidButForArt(dto) =>
           (Post(p, dto)
            => ((req'[p].outcome = "BadRequest")
                <=> ~(dto.art = None \/ dto.art[1] \in SpielArten)))]_vars

\* step of slot p: the slot takes a GET by id
TakesGet(p) == req[p].pc = "idle" /\ req'[p].op = "get"

\* C18: GET by id of a request that accepts JSON or HTML: for an existing
\* item it answers 304 without a body if and only if If-None-Match is the
\* stored version in double quotes, and otherwise 200 with the item and
\* with the stored version in double quotes as ETag; for an id without an
\* item it answers NotFound.  No row is changed.
C18_ConditionalGet ==
    [][\A p \in Procs : TakesGet(p) =>
         \A id \in RequestIds : \A version \in IfNoneMatchHeaders :
           GetById(p, id, version, TRUE)
           => /\ req'[p].pc = "done"
              /\ spiel' = spiel
              /\ name' = name
              /\ IF ~IsSome(FindById(id))
                 THEN req'[p].outcome = "NotFound"
                 ELSE IF version = Some(ETagOf(StoredVersion(id)))
                 THEN /\ req'[p].status = 304
                      /\ req'[p].body = None
                      /\ req'[p].etag = None
                 ELSE /\ req'[p].status = 200
                      /\ req'[p].body = FindById(id)
                      /\ req'[p].etag = Some(ETagOf(StoredVersion(id)))]_vars

\* GETs by id have been answered with 304 and with 200, the latter for an
\* If-None-Match that names another version than the stored one
C18_Witness ==
    \E p \in Procs : \E q \in Procs :
        /\ req[p].op = "get"
        /\ req[p].status = 304
        /\ req[q].op = "get"
        /\ req[q].status = 200
        /\ req[q].etag = Some(ETagOf(FIRST_VERSION))

\* C19: a PUT with a valid body and without If-Match is answered with
\* status 428 at once, whether or not the item exists; no row of the item
\* and of its name is changed and no write is left pending.
C19_MissingIfMatchRequired ==
    [][\A p \in Procs : TakesPut(p) =>
         \A id \in RequestIds : \A dto \in ValidPutBodies :
           Put(p, id, dto, None)
           => /\ req'[p].pc = "done"
              /\ req'[p].outcome = "PreconditionRequired"
              /\ req'[p].status = 428
              /\ req'[p].spielDb = None
              /\ spiel' = spiel
              /\ name' = name
              /\ writes' = writes]_vars

\* a PUT has been answered with 428 while an item exists
C19_Witness ==
    \E p \in Procs :
        /\ req[p].op = "put"
        /\ req[p].status = 428
        /\ spiel # { }

\* step of slot p: the slot takes a DELETE
TakesDelete(p) == req[p].pc = "idle" /\ req'[p].op = "delete"

\* C12: delete of an id for which no item exists, also of an id whose item
\* has been deleted before, completes without an error, returns false and
\* leaves every table unchanged.
C12_DeleteMissingIsNoOp ==
    [][\A p \in Procs : TakesDelete(p) =>
         \A id \in RequestIds : ~IsSome(FindById(id)) =>
           (Delete(p, id)
            => /\ req'[p].pc = "done"
               /\ req'[p].outcome = "NoContent"
               /\ req'[p].deleted = Some(FALSE)
               /\ spiel' = spiel
               /\ name' = name
               /\ bild' = bild
               /\ spielFile' = spielFile)]_vars

\* every item has its row of name, and every row of name and of bild
\* belongs to a stored item
NoPartOfAnItem ==
    /\ \A row \in spiel : \E n \in name : n.spiel_id = row.id
    /\ \A n \in name : \E row \in spiel : row.id = n.spiel_id
    /\ \A b \in bild : \E row \in spiel : row.id = b.spiel_id

\* step of slot p: the transaction of a delete ends.  Either no row of the
\* item, of its name and of its images is left and delete returns true, or
\* the three tables are as they were.
DeletesAllOrNothing(p) ==
    (req[p].pc = "transaction" /\ req'[p].pc = "done") =>
        \/ /\ \E row \in spiel : row.id = req[p].id
           /\ \A row \in spiel' : row.id # req[p].id
           /\ \A n \in name' : n.spiel_id # req[p].id
           /\ \A b \in bild' : b.spiel_id # req[p].id
           /\ req'[p].deleted = Some(TRUE)
        \/ /\ spiel' = spiel
           /\ name' = name
           /\ bild' = bild
           /\ req'[p].deleted # Some(TRUE)

\* C13: delete of an existing item is atomic.  Its transaction either
\* removes the row of the item, the row of its name and all rows of its
\* images and delete returns true, or it removes none of them; in every
\* reachable state each item has its name, and every name and image
\* belongs to a stored item.
C13_DeleteAtomic ==
    /\ []NoPartOfAnItem
    /\ [][\A p \in Procs : DeletesAllOrNothing(p)]_vars

\* one delete has removed the seeded item with its name and its images,
\* another has failed on an item with an uploaded file and has been undone
C13_Witness ==
    \E p \in Procs : \E q \in Procs :
        /\ req[p].op = "delete"
        /\ req[p].deleted = Some(TRUE)
        /\ req[p].id = SeedId
        /\ bild = { }
        /\ req[q].op = "delete"
        /\ req[q].outcome = "QueryFailed"
        /\ \E f \in spielFile : \E n \in name : n.spiel_id = f.spiel_id

\* C20: in every reachable state each item has at most one row of
\* spiel_file, also when the steps of two uploads for the item interleave.
C20_AtMostOneFile ==
    \A row \in spiel :
        Cardinality({ f \in spielFile : f.spiel_id = row.id }) <= 1

\* step of slot p: the slot takes a search
TakesFind(p) == req[p].pc = "idle" /\ req'[p].op = "find"

\* the stored items
Items ==
    { EntityOf(pair[1], pair[2]) : pair \in
        { rn \in spiel \X name : rn[2].spiel_id = rn[1].id } }

\* the name of the item contains the text, whatever the case of the letters
NameContains(item, text) ==
    Contains(Lower(Chars(item.name[1].name)), Lower(Chars(text)))

\* the item satisfies the criteria name, rating and preis where supplied
SatisfiesAll(item, criteria) ==
    /\ "name" \in DOMAIN criteria => NameContains(item, criteria.name)
    /\ ("rating" \in DOMAIN criteria /\ ParseInt(Chars(criteria.rating)) # NaN)
         => item.rating >= ParseInt(Chars(criteria.rating))
    /\ "preis" \in DOMAIN criteria
         => item.preis <= NumberOf(Chars(criteria.preis))

\* C14: for criteria with several recognized keys every item that a search
\* returns satisfies all the criteria supplied: a name that contains the
\* text given, a rating of at least the minimum given, a price of at most the
\* maximum given.
C14_AllCriteriaHold ==
    [][\A p \in Procs : TakesFind(p) =>
         \A query \in Queries : \A pageable \in Pageables :
           (Find(p, query, pageable, TRUE) /\ req'[p].pc = "count")
           => \A i \in 1..Len(req'[p].body[1].content) :
                SatisfiesAll(req'[p].body[1].content[i],
                             Suchkriterien(query))]_vars

\* keys that are neither a property of an item nor a keyword flag
UnknownKeys(keys) ==
    keys \ (SpielProps \cup { "javascript", "typescript", "java", "python" })

\* C15: a search whose criteria have a key that is neither a property of
\* an item nor a keyword flag ends with NotFound in its first step, before
\* any query, whatever the other criteria, the page and the stored items
\* are; page and size are no criteria: a search with these two parameters
\* only returns the stored items like a search without criteria.
C15_UnknownKeyNotFound ==
    [][\A p \in Procs : TakesFind(p) =>
         \A query \in Queries :
           /\ UnknownKeys(DOMAIN query \ { "page", "size" }) # { }
                => \A pageable \in Pageables :
                     Find(p, query, pageable, TRUE)
                     => (req'[p].pc = "done" /\ req'[p].outcome = "NotFound")
           /\ (DOMAIN query = { "page", "size" } /\ spiel # { })
                => \A pageable \in Pageables : pageable.size = Some(0) =>
                     (Find(p, query, pageable, TRUE)
                      => /\ req'[p].pc = "count"
                         /\ Len(req'[p].body[1].content)
                              = Cardinality(Items))]_vars

\* C16: a search by category alone with one of the categories of the items,
\* of which an item is stored, returns a list that is not empty and whose
\* items all have that category.
C16_CategorySearch ==
    [][\A p \in Procs : TakesFind(p) =>
         \A query \in Queries : \A pageable \in Pageables :
           (/\ DOMAIN query = { "art" }
            /\ query.art \in SpielArten
            /\ \E item \in Items : item.art = Some(query.art)
            /\ pageable.size = Some(0)
            /\ Find(p, query, pageable, TRUE))
           => /\ req'[p].pc = "count"
              /\ Len(req'[p].body[1].content) > 0
              /\ \A i \in 1..Len(req'[p].body[1].content) :
                    req'[p].body[1].content[i].art = Some(query.art)]_vars

\* the keyword is one of the keywords of the item
HasKeyword(item, keyword) ==
    /\ IsSome(item.schlagwoerter)
    /\ \E i \in 1..Len(item.schlagwoerter[1]) :
          item.schlagwoerter[1][i] = << keyword >>

\* the item matches the criterion `key` of the criteria
MatchesKey(item, criteria, key) ==
    CASE key = "name" -> NameContains(item, criteria.name)
      [] key = "rating" ->
           \/ ParseInt(Chars(criteria.rating)) = NaN
           \/ item.rating >= ParseInt(Chars(criteria.rating))
      [] key = "preis" -> item.preis <= NumberOf(Chars(criteria.preis))
      [] key = "javascript" ->
           criteria.javascript = "true" => HasKeyword(item, "JAVASCRIPT")
      [] key = "typescript" ->
           criteria.typescript = "true" => HasKeyword(item, "TYPESCRIPT")
      [] key = "java" -> criteria.java = "true" => HasKeyword(item, "JAVA")
      [] key = "python" -> criteria.python = "true" => HasKeyword(item, "PYTHON")
      [] key = "art" -> item.art = Some(criteria.art)
      [] key = "barcode" -> item.barcode = criteria.barcode
      [] key = "lieferbar" -> item.lieferbar = Some(criteria.lieferbar = "true")
      [] OTHER -> FALSE

\* the stored items that match all the criteria
Matching(criteria) ==
    { item \in Items :
        \A key \in DOMAIN criteria : MatchesKey(item, criteria, key) }

\* the number of items before the requested page
Offset(pageable) ==
    IF pageable.size = Some(0) THEN 0
    ELSE OrElse(pageable.number, DEFAULT_PAGE_NUMBER)
           * OrElse(pageable.size, DEFAULT_PAGE_SIZE)

\* C17: every search, with or without criteria and for every page, ends
\* either with a slice of at least one item or with NotFound, and it ends
\* with NotFound if and only if no stored item that matches the criteria is
\* on the requested page.
C17_NeverEmpty ==
    [][\A p \in Procs : TakesFind(p) =>
         \A query \in Queries : \A pageable \in Pageables :
           Find(p, query, pageable, TRUE)
           => /\ \/ /\ req'[p].pc = "count"
                    /\ Len(req'[p].body[1].content) > 0
                 \/ /\ req'[p].pc = "done"
                    /\ req'[p].outcome = "NotFound"
              /\ (req'[p].outcome = "NotFound")
                   <=> (Cardinality(Matching(Suchkriterien(query)))
                          <= Offset(pageable))]_vars

\* a search with a key that is no property has been answered with NotFound
\* while items are stored, and a search is between its two queries
C15_Witness ==
    \E p \in Procs : \E q \in Procs :
        /\ req[p].op = "find"
        /\ req[p].outcome = "NotFound"
        /\ req[q].op = "find"
        /\ req[q].pc = "count"
        /\ Cardinality(spiel) > 1

\* the lowest version that no token of VERSION_DIGITS digits names
VersionLimit == Pow10(VERSION_DIGITS)

\* C26: once the stored version of an item has reached 1000, no update of
\* it goes on to save: a token that passes the format check has at most
\* three digits, names a version below the stored one and ends with
\* VersionOutdated; every other token, one of four or more digits among
\* them, ends with VersionInvalid; the rows stay as they are.
C26_NoUpdateFromVersionLimit ==
    [][\A p \in Procs : TakesPut(p) =>
         \A id \in RequestIds :
           (IsSome(FindById(id)) /\ StoredVersion(id) >= VersionLimit) =>
             \A versionStr \in Tokens : \A dto \in ValidPutBodies :
               Put(p, id, dto, Some(versionStr))
               => /\ req'[p].pc = "done"
                  /\ req'[p].outcome =
                       IF VersionPatternTest(versionStr)
                       THEN "VersionOutdated" ELSE "VersionInvalid"
                  /\ VersionPatternTest(versionStr)
                       => ParseInt(Slice1(versionStr)) < VersionLimit
                  /\ versionStr = ETagOf(VersionLimit)
                       => ~VersionPatternTest(versionStr)
                  /\ spiel' = spiel
                  /\ writes' = writes]_vars

\* the item is stored with version 1000 and both slots hold an answered
\* PUT, one refused as outdated and one as invalid: the slot that has
\* written version 1000 took its second PUT after that
C26_Witness ==
    /\ \E row \in spiel : row.id = SeedId /\ row.version >= VersionLimit
    /\ \A p \in Procs : req[p].op = "put" /\ req[p].pc = "done"
    /\ \E p \in Procs : req[p].outcome = "VersionOutdated"
    /\ \E p \in Procs : req[p].outcome = "VersionInvalid"

\* the keyword flags and the keyword that each of them looks for
KeywordFlags == { "javascript", "typescript", "java", "python" }

KeywordOf(flag) ==
    CASE flag = "javascript" -> "JAVASCRIPT"
      [] flag = "typescript" -> "TYPESCRIPT"
      [] flag = "java" -> "JAVA"
      [] flag = "python" -> "PYTHON"

\* the keywords of the item as one text, the keywords joined by commas
KeywordText(item) ==
    IF IsSome(item.schlagwoerter)
    THEN TextOf(SimpleArrayToString(item.schlagwoerter[1]))
    ELSE << >>

\* the item matches the keyword flag
FlagMatches(item, flag) ==
    IF flag = "java"
    THEN Contains(Replace(KeywordText(item), Chars("JAVASCRIPT")),
                  Chars("JAVA"))
    ELSE Contains(KeywordText(item), Chars(KeywordOf(flag)))

\* the items of a list
ItemsOf(spiele) == { spiele[i] : i \in 1..Len(spiele) }

\* C23: a search without paging whose only criterion is a keyword flag with
\* the value 'true' returns exactly the stored items that match the flag,
\* and NotFound when there is none: for java the items whose keyword text
\* contains JAVA once every JAVASCRIPT is removed, so that an item with
\* JAVASCRIPT alone is left out and an item with JAVASCRIPT and JAVA is
\* returned; for javascript, typescript and python the items whose keyword
\* text contains the keyword in capital letters.
C23_KeywordFlags ==
    [][\A p \in Procs : TakesFind(p) =>
         \A query \in Queries :
           (/\ Cardinality(DOMAIN query) = 1
            /\ DOMAIN query \subseteq KeywordFlags
            /\ \A flag \in DOMAIN query : query[flag] = "true")
           => \A flag \in DOMAIN query :
                \A pageable \in Pageables : pageable.size = Some(0) =>
                  LET matching == { item \in Items : FlagMatches(item, flag) }
                  IN  Find(p, query, pageable, TRUE)
                      => /\ matching = { }
                           => (req'[p].pc = "done"
                               /\ req'[p].outcome = "NotFound")
                         /\ matching # { }
                           => (req'[p].pc = "count"
                               /\ ItemsOf(req'[p].body[1].content) = matching)
                         /\ flag = "java"
                           => \A item \in Items :
                                /\ item.schlagwoerter
                                     = Some(<< << "JAVASCRIPT" >> >>)
                                     => item \notin matching
                                /\ item.id = Some(40) => item \in matching
                         /\ flag = "python"
                           => \A item \in Items :
                                item.id = Some(40) => item \notin matching]_vars

\* a search is between its two queries with a list that holds the item
\* with the keywords JAVASCRIPT and JAVA and not the stored item with the
\* keyword JAVASCRIPT alone
C23_Witness ==
    \E p \in Procs :
        /\ req[p].op = "find"
        /\ req[p].pc = "count"
        /\ req[p].dto = Some([ java |-> "true" ])
        /\ \E row \in spiel : row.schlagwoerter = Some(<< "JAVASCRIPT" >>)
        /\ \E item \in ItemsOf(req[p].body[1].content) : item.id = Some(40)
        /\ \A item \in ItemsOf(req[p].body[1].content) :
              item.schlagwoerter # Some(<< << "JAVASCRIPT" >> >>)

\* no request is in flight or answered
NoRequest == \A p \in Procs : req[p] = IdleReq

\* the criteria without the keyword flags whose value is not 'true'
WithoutUnsetFlags(criteria) ==
    [ key \in { k \in DOMAIN criteria :
                  k \in KeywordFlags => criteria[k] = "true" }
        |-> criteria[key] ]

\* C30: a keyword flag whose value is not the string 'true' adds no
\* condition: the query built is the query built without such flags, the
\* query without conditions when such flags are the only criteria; a search
\* returns a list that the search without such flags can return, ends with
\* NotFound only when that search can, and with such flags alone its
\* totalElements is the number of stored items.
C30_UnsetFlagNoCondition ==
    /\ [](NoRequest =>
          \A query \in Queries : \A pageable \in Pageables :
            /\ Build(Suchkriterien(query), pageable)
                 = Build(Suchkriterien(WithoutUnsetFlags(query)), pageable)
            /\ DOMAIN WithoutUnsetFlags(query) = { }
                 => Build(Suchkriterien(query), pageable)
                      = Build(<< >>, pageable))
    /\ [][\A p \in Procs :
            /\ (/\ TakesFind(p)
                /\ req'[p].pc = "count"
                /\ WithoutUnsetFlags(req'[p].dto[1]) # req'[p].dto[1])
                 => \A query \in Queries :
                      Suchkriterien(query) = req'[p].dto[1] =>
                        \A pageable \in Pageables :
                          Find(p, query, pageable, TRUE)
                          => req'[p].body[1].content
                               \in GetMany(Build(
                                      Suchkriterien(WithoutUnsetFlags(query)),
                                      pageable))
            /\ (NoRequest /\ TakesFind(p) /\ req'[p].pc = "done")
                 => \A query \in Queries :
                      WithoutUnsetFlags(query) # query =>
                        \A pageable \in Pageables :
                          Find(p, query, pageable, TRUE)
                          => /\ req'[p].outcome = "NotFound"
                             /\ << >> \in GetMany(Build(
                                   Suchkriterien(WithoutUnsetFlags(query)),
                                   pageable))
            /\ (/\ req[p].pc = "count"
                /\ req'[p].pc = "done"
                /\ WithoutUnsetFlags(req[p].dto[1]) = << >>)
                 => req'[p].body[1].totalElements = Cardinality(Items)]_vars

\* a search whose only criterion is python=false is between its two
\* queries with all of several stored items, one of which has no keyword
\* PYTHON
C30_Witness ==
    \E p \in Procs :
        /\ req[p].op = "find"
        /\ req[p].pc = "count"
        /\ req[p].dto = Some([ python |-> "false" ])
        /\ Len(req[p].body[1].content) = Cardinality(Items)
        /\ Cardinality(Items) > 1
        /\ \E item \in ItemsOf(req[p].body[1].content) :
              ~FlagMatches(item, "python")

\* the page of `order` for page size `size` and page number `number`
PageOf(order, size, number) ==
    SubSeq(order, number * size + 1,
           IF number * size + size < Len(order)
           THEN number * size + size ELSE Len(order))

\* the list is what the page descriptor allows for the items `matching`:
\* all of them for size 0, else the items at the offsets number * size to
\* number * size + size - 1 of the matching items in an order of the
\* database, with the defaults for a missing size or number
IsPageOf(spiele, matching, pageable) ==
    LET size == OrElse(pageable.size, DEFAULT_PAGE_SIZE)
        number == OrElse(pageable.number, DEFAULT_PAGE_NUMBER)
        rest == Cardinality(matching) - number * size
    IN  IF pageable.size = Some(0)
        THEN /\ Len(spiele) = Cardinality(matching)
             /\ ItemsOf(spiele) = matching
        ELSE /\ Len(spiele) <= size
             /\ Len(spiele) = (IF rest < 0 THEN 0
                               ELSE IF rest < size THEN rest ELSE size)
             /\ \E order \in Orders(matching) :
                   spiele = PageOf(order, size, number)

\* a descriptor without paging
Unpaged == [ number |-> None, size |-> Some(0) ]

\* C24: the list that a search reads is the page that its page descriptor
\* names of the items that its query selects: at most `size` items, those
\* at the offsets number * size .. number * size + size - 1, with the
\* default size and the default number where the descriptor has none, and
\* all selected items, without limit and offset, for size 0.  This holds for
\* every query that can be built on the stored items (searches do not
\* change them, so the states without a request have them all), and for
\* the list of every search that goes on to count.
C24_Paging ==
    /\ [](NoRequest =>
          \A query \in Queries : \A pageable \in Pageables :
            LET criteria == Suchkriterien(query)
                queryBuilder == Build(criteria, pageable)
                matching == Selected(Build(criteria, Unpaged))
            IN  /\ pageable.size = Some(0)
                     => (queryBuilder.take = None /\ queryBuilder.skip = None)
                /\ pageable.size # Some(0)
                     => /\ queryBuilder.take
                             = Some(OrElse(pageable.size, DEFAULT_PAGE_SIZE))
                        /\ queryBuilder.skip
                             = Some(OrElse(pageable.number, DEFAULT_PAGE_NUMBER)
                                      * OrElse(pageable.size, DEFAULT_PAGE_SIZE))
                /\ \A spiele \in GetMany(queryBuilder) :
                      IsPageOf(spiele, matching, pageable))
    /\ [][\A p \in Procs :
            (TakesFind(p) /\ req'[p].pc = "count") =>
              \A query \in Queries :
                Suchkriterien(query) = req'[p].dto[1] =>
                  \A pageable \in Pageables :
                    Find(p, query, pageable, TRUE)
                    => IsPageOf(req'[p].body[1].content,
                                Selected(Build(req'[p].dto[1], Unpaged)),
                                pageable)]_vars

\* a search is between its two queries with a list of one item while three
\* items are stored, and another with all three items
C24_Witness ==
    \E p \in Procs : \E q \in Procs :
        /\ req[p].op = "find"
        /\ req[p].pc = "count"
        /\ req[p].dto = Some(<< >>)
        /\ Len(req[p].body[1].content) = 1
        /\ req[q].op = "find"
        /\ req[q].pc = "count"
        /\ req[q].dto = Some(<< >>)
        /\ Len(req[q].body[1].content) = 3
        /\ Cardinality(Items) = 3

\* C29: in every slice that a search returns, totalElements is at least
\* the number of items in content, also when a create or a delete of
\* another request runs between the query of the content and the query of
\* the count.
C29_TotalElementsCoversContent ==
    \A p \in Procs :
        (req[p].op = "find" /\ req[p].outcome = "Ok")
        => req[p].body[1].totalElements >= Len(req[p].body[1].content)

\* the ids that the subjects of the mails carry
MailSubjects == { mails[i].subject : i \in 1..Len(mails) }

\* the stored items that a create has inserted
Inserted == { row \in spiel : row.id >= FIRST_ID }

\* C25: a mail is handed to the mail service only in the step after the
\* insert of a create, with the id of the inserted and stored item as its
\* subject; every inserted item has exactly one mail once its create has
\* passed the mail step, and none before; a create that is answered with a
\* failure, and the steps before and at the insert, send no mail; a create
\* has no response before its mail step, and the id it reports then is
\* the subject of a mail.
C25_MailAfterInsert ==
    /\ [](/\ \A i \in 1..Len(mails) : \A j \in 1..Len(mails) :
                mails[i].subject = mails[j].subject => i = j
          /\ MailSubjects \subseteq { row.id : row \in Inserted }
          /\ Len(mails) + InFlight("mail") = Cardinality(Inserted)
          /\ \A p \in Procs :
                /\ req[p].pc = "mail"
                     => (req[p].id \notin MailSubjects
                         /\ \E row \in Inserted : row.id = req[p].id)
                /\ req[p].pc \in { "insert", "mail" } => req[p].outcome = "none"
                /\ (req[p].op = "post" /\ req[p].outcome = "Created")
                     => (req[p].ret \in MailSubjects
                         /\ \E row \in Inserted : row.id = req[p].ret)
                /\ (req[p].op = "post" /\ req[p].pc = "done"
                      /\ req[p].outcome # "Created")
                     => req[p].ret \notin MailSubjects)
    /\ [][\A p \in Procs :
            /\ (req[p].pc = "mail" /\ req'[p].pc = "done")
                 => /\ mails' = Append(mails, mails'[Len(mails')])
                    /\ mails'[Len(mails')].subject = req[p].id
                    /\ req'[p].outcome = "Created"
                    /\ req'[p].ret = req[p].id
                    /\ spiel' = spiel
            /\ (/\ req[p].pc \in { "idle", "insert" }
                /\ req'[p] # req[p]
                /\ req'[p].op = "post")
                 => mails' = mails]_vars

\* two creates have been answered with the ids of their items, and one
\* create has been refused for its barcode
C25_Witness ==
    /\ Len(mails) = 2
    /\ Cardinality(Inserted) = 2
    /\ \E p \in Procs :
          /\ req[p].op = "post"
          /\ req[p].outcome = "Created"
          /\ req[p].ret = mails[2].subject
    /\ \E p \in Procs :
          /\ req[p].op = "post"
          /\ req[p].outcome = "BarcodeExists"

\* the ids of the stored items
ItemIds == { row.id : row \in spiel }

\* C28: in every reachable state of create, file upload, update and delete
\* the item that a row of name, of bild or of spiel_file refers to is
\* stored.
C28_NoDanglingDependents ==
    /\ { n.spiel_id : n \in name } \subseteq ItemIds
    /\ { b.spiel_id : b \in bild } \subseteq ItemIds
    /\ { f.spiel_id : f \in spielFile } \subseteq ItemIds

\* a delete has removed an item, and a delete of an item with an uploaded
\* file has been refused, the file and its item being stored
C28_Witness ==
    \E p \in Procs : \E q \in Procs :
        /\ req[p].op = "delete"
        /\ req[p].deleted = Some(TRUE)
        /\ req[p].id \notin ItemIds
        /\ req[q].op = "delete"
        /\ req[q].outcome = "QueryFailed"
        /\ \E f \in spielFile : f.spiel_id \in ItemIds

\* the stored row of the item with `id` in the rows `rows`
ItemRow(rows, id) == CHOOSE row \in rows : row.id = id

\* C27: the step in which an update is saved and answered with success
\* leaves the id and the creation timestamp of the item's row as they
\* were and counts its version up by one; the rows of the other items and
\* the tables name, bild and spiel_file are the same after the step as
\* before, also while uploads, creates and deletes of other requests are
\* under way.
C27_UpdateFrame ==
    [][\A p \in Procs :
         (req[p].pc = "save" /\ req'[p].outcome = "NoContent") =>
           /\ \E row \in spiel : row.id = req[p].id
           /\ \E row \in spiel' : row.id = req[p].id
           /\ { row \in spiel' : row.id # req[p].id }
                = { row \in spiel : row.id # req[p].id }
           /\ LET before == ItemRow(spiel, req[p].id)
                  after == ItemRow(spiel', req[p].id)
              IN  /\ after.id = before.id
                  /\ after.erzeugt = before.erzeugt
                  /\ after.version = before.version + 1
                  /\ after.barcode = req[p].dto[1].barcode
                  /\ after.rating = req[p].dto[1].rating
           /\ name' = name
           /\ bild' = bild
           /\ spielFile' = spielFile
           /\ spielSeq' = spielSeq
           /\ nameSeq' = nameSeq
           /\ fileSeq' = fileSeq]_vars

\* an update of the seeded item has been saved while the item has its
\* name, its two images and an uploaded file
C27_Witness ==
    \E p \in Procs :
        /\ PutSucceeded(p)
        /\ req[p].id = SeedId
        /\ \E row \in spiel :
              /\ row.id = SeedId
              /\ row.barcode = GeaendertesSpielBarcode.barcode
              /\ row.version = req[p].ret
        /\ \E n \in name : n.spiel_id = SeedId
        /\ Cardinality({ b \in bild : b.spiel_id = SeedId }) = 2
        /\ \E f \in spielFile : f.spiel_id = SeedId

\* the rating of a body is a whole number from 0 to MAX_RATING
RatingAccepted(dto) == IsInt(dto) /\ dto.rating \in 0..MAX_RATING

\* the request of p has been refused as a bad request and nothing is stored
\* or sent in the step
RefusedUnchanged(p) ==
    /\ req'[p].pc = "done"
    /\ req'[p].outcome = "BadRequest"
    /\ req'[p].status = 400
    /\ UNCHANGED << spiel, name, bild, spielFile, fileSeq, spielSeq, nameSeq,
                    mails, writes, updatedIds >>

\* C21: every stored item has an integer rating from 0 to 5; a create or an
\* update whose body has a rating outside this range or a rating that is not
\* an integer is refused as a bad request in the step that receives it, and
\* that step changes nothing stored; no request with such a body ever waits
\* for its write.
C21_RatingInRange ==
    /\ [](\A row \in spiel : row.rating \in 0..MAX_RATING)
    /\ [](\A p \in Procs :
            IsSome(req[p].dto) /\ req[p].op \in { "post", "put" }
                => RatingAccepted(req[p].dto[1]))
    /\ [][\A p \in Procs :
            /\ \A spielDTO \in RatingPosts :
                 ~RatingAccepted(spielDTO) /\ Post(p, spielDTO)
                     => RefusedUnchanged(p)
            /\ \A spielDTO \in RatingPuts :
                 \A id \in IdsBesideWrites : \A version \in HeadersBesideWrites :
                     ~RatingAccepted(spielDTO) /\ Put(p, id, spielDTO, version)
                         => RefusedUnchanged(p)]_vars

\* a create and an update have been refused for their rating, beside a
\* created item with the highest rating and an updated item with the lowest
C21_Witness ==
    /\ \E p \in Procs : req[p].op = "post" /\ req[p].outcome = "BadRequest"
    /\ \E row \in spiel : row.id = FIRST_ID /\ row.rating = MAX_RATING
    /\ \E row \in spiel : row.id = SeedId /\ row.rating = 0 /\ SeedId \in updatedIds

\* the token is verified and has one of the roles
Permitted(token, roles) ==
    Authenticated(token) /\ roles \cap token[1].roles # { }

\* the request of p has been refused by a guard and nothing is stored or
\* sent in the step
RefusedByGuard(p, token) ==
    /\ req'[p].pc = "done"
    /\ req'[p].status = (IF Authenticated(token) THEN 403 ELSE 401)
    /\ UNCHANGED << spiel, name, bild, spielFile, fileSeq, spielSeq, nameSeq,
                    mails, writes, updatedIds >>

\* C22: a request that changes stored data is let through to its handler
\* only when its caller is authenticated with a permitted role (admin or
\* user for create and update, admin for delete, an authenticated caller for
\* the upload of a file); otherwise it is refused in the step that receives
\* it, with 401 when it has no token or a token that is not verified, and
\* that step stores nothing. A search is let through with any token and
\* with none.
C22_WritesNeedRole ==
    [][\A p \in Procs : \A token \in BearerTokens :
         /\ ~Permitted(token, { "admin", "user" })
              /\ GuardedPost(p, token, NeuesSpielOhneArt)
                  => RefusedByGuard(p, token)
         /\ \A version \in HeadersBesideWrites :
              ~Permitted(token, { "admin", "user" })
              /\ GuardedPut(p, token, SeedId, GeaendertesSpielBarcode, version)
                  => RefusedByGuard(p, token)
         /\ ~Permitted(token, { "admin" }) /\ GuardedDelete(p, token, SeedId)
              => RefusedByGuard(p, token)
         /\ ~Authenticated(token)
              /\ GuardedAddFile(p, token, SeedId,
                                [ filename |-> "a.png", data |-> "A" ])
                  => RefusedByGuard(p, token)
         /\ GuardedGet(p, token, << >>, [ number |-> None, size |-> None ])
              => req'[p].status \notin { 401, 403 }]_vars

\* the same without the upload of a file
C22_ExceptUpload ==
    [][\A p \in Procs : \A token \in BearerTokens :
         /\ ~Permitted(token, { "admin", "user" })
              /\ GuardedPost(p, token, NeuesSpielOhneArt)
                  => RefusedByGuard(p, token)
         /\ \A version \in HeadersBesideWrites :
              ~Permitted(token, { "admin", "user" })
              /\ GuardedPut(p, token, SeedId, GeaendertesSpielBarcode, version)
                  => RefusedByGuard(p, token)
         /\ ~Permitted(token, { "admin" }) /\ GuardedDelete(p, token, SeedId)
              => RefusedByGuard(p, token)
         /\ GuardedGet(p, token, << >>, [ number |-> None, size |-> None ])
              => req'[p].status \notin { 401, 403 }]_vars

=============================================================================
